---- MODULE Spec2Model ----
(***************************************************************************)
(* A model of the read-only ZIP reader of modelinspect                     *)
(* (src/model_inspect/file_types/zip_file/zip_file.py): the shared file    *)
(* handle (_SharedFile), the streaming entry reader (ZipExtFile), the      *)
(* legacy decrypter (ZipDecrypter) and the archive handle (ZipFile).       *)
(*                                                                         *)
(* Conventions.                                                            *)
(*  - bytes objects are sequences of integers 0..255; Python's 0-based     *)
(*    slices are the operators Slice / SliceTo / SliceFrom.                *)
(*  - an operator that models a method takes the object's state as a       *)
(*    record and returns a record [r, fpos, data, err]: the object after   *)
(*    the call, the cursor of the physical file after the call, the value  *)
(*    returned and the exception raised ("none" when the call returns).    *)
(*    State changed before an exception is raised stays changed, as in     *)
(*    Python.                                                              *)
(*  - None is modelled by NoneV; it is only used where the code's values   *)
(*    are non-negative integers.                                           *)
(*  - names that zip_file.py uses without defining them (ZIP_STORED,       *)
(*    _MASK_ENCRYPTED, _FH_SIGNATURE, ...) are the definitions of          *)
(*    constants.py of the same package.                                    *)
(*  - zlib, bz2 and zlib.crc32 are libraries outside the repository; they  *)
(*    are modelled by small codecs with the same interface (see Inflate,   *)
(*    Bunzip, crc32).                                                      *)
(***************************************************************************)
EXTENDS Integers, Sequences, FiniteSets, TLC

(***************************************************************************)
(* Bounds of the model.                                                    *)
(***************************************************************************)
\* ZipExtFile.MIN_READ_SIZE is 4096 in the source; scaled down so that the
\* entries of the fixture archive span several blocks.
MIN_READ_SIZE == 2
\* ZipExtFile.MAX_SEEK_READ is 1 << 24 in the source; scaled down so that a
\* seek that replays an entry takes several chunks.
MAX_SEEK_READ == 3
\* Number of calls explored per run, after the constructor.
MaxOps == 4
\* Largest byte count passed to read, read1 and peek, and largest seek offset.
MaxArg == 3
MaxComment == 5
\* the longest member name handed to extract, and the calls made on one handle
MaxName == 4
MaxCalls == 1

\* the threads that share one handle, and the calls each of them begins
NThreads == 2
MaxThreadCalls == 2

\* LZMA entries: the length of the properties, the bytes of data after them,
\* and the bytes passed to one call of decompress
MaxProps == 2
MaxData == 3
MaxChunk == 3

\* the loops run pass by pass: the read and seek calls made on the reader, the
\* passes and turns counted, and the farthest position sought
MaxLoopCalls == 2
MaxPasses == 3
MaxLoopSeek == 5

(***************************************************************************)
(* Program constants.                                                      *)
(***************************************************************************)
ZIP_STORED == 0
ZIP_DEFLATED == 8
ZIP_BZIP2 == 12
ZIP_LZMA == 14
MAX_EXTRACT_VERSION == 63
\* MAX_N = 1 << 31 - 1 parses as 1 << 30 in Python.
MAX_N == 1073741824
sizeFileHeader == 30
sizeCentralDir == 46
sizeEndCentDir == 22
_MASK_ENCRYPTED == 1
_MASK_USE_DATA_DESCRIPTOR == 8
_MASK_COMPRESSED_PATCH == 32
_MASK_STRONG_ENCRYPTION == 64
_MASK_UTF_FILENAME == 2048
PeekMax == 512
NoneV == 0 - 1

(***************************************************************************)
(* Sequences as Python bytes.                                              *)
(***************************************************************************)
Min(a, b) == IF a < b THEN a ELSE b
Max(a, b) == IF a > b THEN a ELSE b

\* s[a:b] for a, b >= 0
Slice(s, a, b) == SubSeq(s, a + 1, Min(b, Len(s)))
\* s[a:]
SliceFrom(s, a) == SubSeq(s, a + 1, Len(s))
\* s[:e], e of either sign (a negative e counts from the end, as in Python)
SliceTo(s, e) == IF e >= 0 THEN Slice(s, 0, e) ELSE Slice(s, 0, Max(Len(s) + e, 0))

\* e, with v evaluated first: TLC evaluates operator arguments lazily, and an
\* accumulator left unevaluated over a long loop is a deep nest of thunks
Eager(v, e) == IF v = v THEN e ELSE e

\* bit k (a power of two) of the non-negative integer x is set
BitSet(x, k) == (x \div k) % 2 = 1

\* struct.unpack of a little-endian unsigned 16 / 32 bit field at 0-based index i
LE16(b, i) == b[i + 1] + 256 * b[i + 2]
LE32(b, i) == b[i + 1] + 256 * b[i + 2] + 65536 * b[i + 3] + 16777216 * b[i + 4]

\* bytes.decode("cp437"): the code points of the bytes 128 .. 255
cp437_high ==
  << 199, 252, 233, 226, 228, 224, 229, 231, 234, 235, 232, 239, 238, 236, 196, 197,
     201, 230, 198, 244, 246, 242, 251, 249, 255, 214, 220, 162, 163, 165, 8359, 402,
     225, 237, 243, 250, 241, 209, 170, 186, 191, 8976, 172, 189, 188, 161, 171, 187,
     9617, 9618, 9619, 9474, 9508, 9569, 9570, 9558, 9557, 9571, 9553, 9559, 9565, 9564, 9563, 9488,
     9492, 9524, 9516, 9500, 9472, 9532, 9566, 9567, 9562, 9556, 9577, 9574, 9568, 9552, 9580, 9575,
     9576, 9572, 9573, 9561, 9560, 9554, 9555, 9579, 9578, 9496, 9484, 9608, 9604, 9612, 9616, 9600,
     945, 223, 915, 960, 931, 963, 181, 964, 934, 920, 937, 948, 8734, 966, 949, 8745,
     8801, 177, 8805, 8804, 8992, 8993, 247, 8776, 176, 8729, 183, 8730, 8319, 178, 9632, 160 >>

decode_cp437(b) == [ok |-> TRUE,
                    s |-> [k \in 1 .. Len(b) |->
                             IF b[k] < 128 THEN b[k] ELSE cp437_high[b[k] - 127]]]

\* bytes.decode("utf-8"): the length of the sequence a byte starts (0: none), the
\* code point of a sequence of n bytes, and whether n bytes at i are a sequence
Utf8Lead(x) ==
  IF x \in 194 .. 223 THEN 2 ELSE IF x \in 224 .. 239 THEN 3
  ELSE IF x \in 240 .. 244 THEN 4 ELSE 0
Utf8Value(b, i, n) ==
  CASE n = 2 -> (b[i] - 192) * 64 + (b[i + 1] - 128)
    [] n = 3 -> (b[i] - 224) * 4096 + (b[i + 1] - 128) * 64 + (b[i + 2] - 128)
    [] OTHER -> (b[i] - 240) * 262144 + (b[i + 1] - 128) * 4096 + (b[i + 2] - 128) * 64
                  + (b[i + 3] - 128)
Utf8Valid(b, i, n) ==
  /\ n > 0
  /\ i + n - 1 <= Len(b)
  /\ b[i + 1] \in (CASE b[i] = 224 -> 160 .. 191
                      [] b[i] = 237 -> 128 .. 159
                      [] b[i] = 240 -> 144 .. 191
                      [] b[i] = 244 -> 128 .. 143
                      [] OTHER -> 128 .. 191)
  /\ \A k \in 2 .. n - 1 : b[i + k] \in 128 .. 191

RECURSIVE decode_utf8(_, _, _)
decode_utf8(b, i, acc) ==
  IF i > Len(b) THEN [ok |-> TRUE, s |-> acc]
  ELSE IF b[i] < 128 THEN decode_utf8(b, i + 1, Append(acc, b[i]))
  ELSE IF ~Utf8Valid(b, i, Utf8Lead(b[i])) THEN [ok |-> FALSE, s |-> << >>]
  ELSE decode_utf8(b, i + Utf8Lead(b[i]),
                   Append(acc, Utf8Value(b, i, Utf8Lead(b[i]))))

\* fname.decode("utf-8") under the header's flag, fname.decode("cp437") without it
\* (metadata_encoding is None): ok is FALSE for UnicodeDecodeError
decode(fname, flag_bits) ==
  IF BitSet(flag_bits, _MASK_UTF_FILENAME) THEN decode_utf8(fname, 1, << >>)
  ELSE decode_cp437(fname)

stringFileHeader == << 80, 75, 3, 4 >>
stringCentralDir == << 80, 75, 1, 2 >>
stringEndArchive == << 80, 75, 5, 6 >>
stringEndArchive64Locator == << 80, 75, 6, 7 >>
stringEndArchive64 == << 80, 75, 6, 6 >>
sizeEndCentDir64Locator == 20
sizeEndCentDir64 == 56

(***************************************************************************)
(* The fixture: one physical file per archive.  Both archives hold the     *)
(* same two members,                                                       *)
(*   "a" at 0:  local header (30), name (1), extra (2), data at 33..38     *)
(*   "b" at 39: local header (30), name (1), data at 70..84: a 12-byte     *)
(*              encryption header and 3 bytes, encrypted with password "p" *)
(*              (check byte 0x5A)                                          *)
(* ArchEmpty ends with an EOCD record that declares an empty central       *)
(* directory; ArchDir ends with a central directory of two records and its *)
(* EOCD record; ArchNoZip is not a ZIP file.                               *)
(***************************************************************************)
EntryRegion ==
  << 80, 75, 3, 4, 20, 0, 0, 0, 0, 0, 0, 0, 0, 0, 0, 0,
     0, 0, 6, 0, 0, 0, 6, 0, 0, 0, 1, 0, 2, 0, 97, 7,
     7, 3, 1, 2, 0, 5, 4, 80, 75, 3, 4, 20, 0, 1, 0, 0,
     0, 0, 0, 0, 0, 0, 0, 0, 0, 15, 0, 0, 0, 3, 0, 0,
     0, 1, 0, 0, 0, 98, 5, 59, 223, 172, 97, 75, 199, 156, 70, 80,
     161, 21, 193, 42, 108 >>

TailEmpty ==
  << 80, 75, 5, 6, 0, 0, 0, 0, 0, 0, 0, 0, 0, 0, 0, 0,
     85, 0, 0, 0, 0, 0 >>

TailDir ==
  << 80, 75, 1, 2, 20, 3, 20, 0, 0, 0, 0, 0, 0, 0, 33, 0,
     106, 2, 37, 218, 6, 0, 0, 0, 6, 0, 0, 0, 1, 0, 0, 0,
     0, 0, 0, 0, 0, 0, 0, 0, 0, 0, 0, 0, 0, 0, 97, 80,
     75, 1, 2, 20, 3, 20, 0, 1, 0, 0, 0, 0, 0, 33, 0, 0,
     0, 0, 90, 15, 0, 0, 0, 3, 0, 0, 0, 1, 0, 0, 0, 0,
     0, 0, 0, 0, 0, 0, 0, 0, 0, 39, 0, 0, 0, 98, 80, 75,
     5, 6, 0, 0, 0, 0, 2, 0, 2, 0, 94, 0, 0, 0, 85, 0,
     0, 0, 0, 0 >>

(***************************************************************************)
(* Further files.  Arch64 and Arch64Comment follow the members with a      *)
(* ZIP64 end record (directory of 0 bytes at 85), its locator and an end   *)
(* record; the end record of Arch64 holds 0xFFFF and 0x00FFFFFF where the  *)
(* ZIP64 record holds the values, the one of Arch64Comment holds its own   *)
(* place and the comment "hi".  The next four are a central directory of   *)
(* one record and its end record: ArchVer has extract_version 99, ArchCut  *)
(* declares a name of 5 bytes in a directory of 47, ArchCutFixed is a      *)
(* directory of 10 bytes, ArchExtra has an extra field whose one record    *)
(* declares 8 bytes of payload and has none.  ArchUtf holds two members    *)
(* and an empty directory: at 0 a local header with the UTF-8 flag and the *)
(* name byte 0xFF, at 39 one without the flag and the name byte 0x82.      *)
(* ArchDup holds two stored members named "a", of 3 bytes at 0 and of 2    *)
(* bytes at 34; its directory lists the one at 34 first.                   *)
(* ArchUni holds one stored member "a" of 1 byte; the extra field of its   *)
(* directory record is a Unicode path record (0x7075) of version 1 with    *)
(* the CRC-32 of "a" and the name "b".                                     *)
(* ArchFar and ArchNeg are ArchVer with extract_version 20: the record of  *)
(* ArchFar holds the header offset 1000, the end record of ArchNeg holds   *)
(* the directory offset 5 for a directory at 0, so that concat is -5.      *)
(***************************************************************************)
Archives == {"ArchEmpty", "ArchDir", "ArchNoZip", "ArchVer", "ArchUtf", "ArchDup"}

FileBytes(a) ==
  CASE a = "ArchEmpty" -> EntryRegion \o TailEmpty
    [] a = "ArchDir" -> EntryRegion \o TailDir
    [] a = "Arch64" -> EntryRegion \o
         << 80, 75, 6, 6, 44, 0, 0, 0, 0, 0, 0, 0, 45, 0, 45, 0,
            0, 0, 0, 0, 0, 0, 0, 0, 0, 0, 0, 0, 0, 0, 0, 0,
            0, 0, 0, 0, 0, 0, 0, 0, 0, 0, 0, 0, 0, 0, 0, 0,
            85, 0, 0, 0, 0, 0, 0, 0, 80, 75, 6, 7, 0, 0, 0, 0,
            85, 0, 0, 0, 0, 0, 0, 0, 1, 0, 0, 0, 80, 75, 5, 6,
            0, 0, 0, 0, 255, 255, 255, 255, 255, 255, 255, 0, 255, 255, 255, 0,
            0, 0 >>
    [] a = "Arch64Comment" -> EntryRegion \o
         << 80, 75, 6, 6, 44, 0, 0, 0, 0, 0, 0, 0, 45, 0, 45, 0,
            0, 0, 0, 0, 0, 0, 0, 0, 0, 0, 0, 0, 0, 0, 0, 0,
            0, 0, 0, 0, 0, 0, 0, 0, 0, 0, 0, 0, 0, 0, 0, 0,
            85, 0, 0, 0, 0, 0, 0, 0, 80, 75, 6, 7, 0, 0, 0, 0,
            85, 0, 0, 0, 0, 0, 0, 0, 1, 0, 0, 0, 80, 75, 5, 6,
            0, 0, 0, 0, 0, 0, 0, 0, 0, 0, 0, 0, 161, 0, 0, 0,
            2, 0, 104, 105 >>
    [] a = "ArchVer" ->
         << 80, 75, 1, 2, 20, 3, 99, 0, 0, 0, 0, 0, 0, 0, 33, 0,
            0, 0, 0, 0, 0, 0, 0, 0, 0, 0, 0, 0, 1, 0, 0, 0,
            0, 0, 0, 0, 0, 0, 0, 0, 0, 0, 0, 0, 0, 0, 97, 80,
            75, 5, 6, 0, 0, 0, 0, 1, 0, 1, 0, 47, 0, 0, 0, 0,
            0, 0, 0, 0, 0 >>
    [] a = "ArchCut" ->
         << 80, 75, 1, 2, 20, 3, 20, 0, 0, 0, 0, 0, 0, 0, 33, 0,
            0, 0, 0, 0, 0, 0, 0, 0, 0, 0, 0, 0, 5, 0, 0, 0,
            0, 0, 0, 0, 0, 0, 0, 0, 0, 0, 0, 0, 0, 0, 97, 80,
            75, 5, 6, 0, 0, 0, 0, 1, 0, 1, 0, 47, 0, 0, 0, 0,
            0, 0, 0, 0, 0 >>
    [] a = "ArchCutFixed" ->
         << 80, 75, 1, 2, 20, 3, 20, 0, 0, 0, 80, 75, 5, 6, 0, 0,
            0, 0, 1, 0, 1, 0, 10, 0, 0, 0, 0, 0, 0, 0, 0, 0 >>
    [] a = "ArchExtra" ->
         << 80, 75, 1, 2, 20, 3, 20, 0, 0, 0, 0, 0, 0, 0, 33, 0,
            0, 0, 0, 0, 0, 0, 0, 0, 0, 0, 0, 0, 1, 0, 4, 0,
            0, 0, 0, 0, 0, 0, 0, 0, 0, 0, 0, 0, 0, 0, 97, 1,
            0, 8, 0, 80, 75, 5, 6, 0, 0, 0, 0, 1, 0, 1, 0, 51,
            0, 0, 0, 0, 0, 0, 0, 0, 0 >>
    [] a = "ArchFar" ->
         << 80, 75, 1, 2, 20, 3, 20, 0, 0, 0, 0, 0, 0, 0, 33, 0,
            0, 0, 0, 0, 0, 0, 0, 0, 0, 0, 0, 0, 1, 0, 0, 0,
            0, 0, 0, 0, 0, 0, 0, 0, 0, 0, 232, 3, 0, 0, 97, 80,
            75, 5, 6, 0, 0, 0, 0, 1, 0, 1, 0, 47, 0, 0, 0, 0,
            0, 0, 0, 0, 0 >>
    [] a = "ArchNeg" ->
         << 80, 75, 1, 2, 20, 3, 20, 0, 0, 0, 0, 0, 0, 0, 33, 0,
            0, 0, 0, 0, 0, 0, 0, 0, 0, 0, 0, 0, 1, 0, 0, 0,
            0, 0, 0, 0, 0, 0, 0, 0, 0, 0, 0, 0, 0, 0, 97, 80,
            75, 5, 6, 0, 0, 0, 0, 1, 0, 1, 0, 47, 0, 0, 0, 5,
            0, 0, 0, 0, 0 >>
    [] a = "ArchDup" ->
         << 80, 75, 3, 4, 20, 0, 0, 0, 0, 0, 0, 0, 33, 0, 29, 128,
            188, 85, 3, 0, 0, 0, 3, 0, 0, 0, 1, 0, 0, 0, 97, 1,
            2, 3, 80, 75, 3, 4, 20, 0, 0, 0, 0, 0, 0, 0, 33, 0,
            116, 35, 223, 85, 2, 0, 0, 0, 2, 0, 0, 0, 1, 0, 0, 0,
            97, 4, 5, 80, 75, 1, 2, 20, 3, 20, 0, 0, 0, 0, 0, 0,
            0, 33, 0, 116, 35, 223, 85, 2, 0, 0, 0, 2, 0, 0, 0, 1,
            0, 0, 0, 0, 0, 0, 0, 0, 0, 0, 0, 0, 0, 34, 0, 0,
            0, 97, 80, 75, 1, 2, 20, 3, 20, 0, 0, 0, 0, 0, 0, 0,
            33, 0, 29, 128, 188, 85, 3, 0, 0, 0, 3, 0, 0, 0, 1, 0,
            0, 0, 0, 0, 0, 0, 0, 0, 0, 0, 0, 0, 0, 0, 0, 0,
            97, 80, 75, 5, 6, 0, 0, 0, 0, 2, 0, 2, 0, 94, 0, 0,
            0, 67, 0, 0, 0, 0, 0 >>
    [] a = "ArchUni" ->
         << 80, 75, 3, 4, 20, 0, 0, 0, 0, 0, 0, 0, 33, 0, 46, 122,
            102, 76, 1, 0, 0, 0, 1, 0, 0, 0, 1, 0, 0, 0, 97, 7,
            80, 75, 1, 2, 20, 3, 20, 0, 0, 0, 0, 0, 0, 0, 33, 0,
            46, 122, 102, 76, 1, 0, 0, 0, 1, 0, 0, 0, 1, 0, 10, 0,
            0, 0, 0, 0, 0, 0, 0, 0, 0, 0, 0, 0, 0, 0, 97, 117,
            112, 6, 0, 1, 67, 190, 183, 232, 98, 80, 75, 5, 6, 0, 0, 0,
            0, 1, 0, 1, 0, 57, 0, 0, 0, 32, 0, 0, 0, 0, 0 >>
    [] a = "ArchUtf" ->
         << 80, 75, 3, 4, 20, 0, 0, 8, 0, 0, 0, 0, 0, 0, 0, 0,
            0, 0, 6, 0, 0, 0, 6, 0, 0, 0, 1, 0, 0, 0, 255, 3,
            1, 2, 0, 5, 4, 0, 0, 80, 75, 3, 4, 20, 0, 0, 0, 0,
            0, 0, 0, 0, 0, 85, 187, 86, 186, 3, 0, 0, 0, 3, 0, 0,
            0, 1, 0, 0, 0, 130, 6, 7, 8, 80, 75, 5, 6, 0, 0, 0,
            0, 0, 0, 0, 0, 0, 0, 0, 0, 73, 0, 0, 0, 0, 0 >>
    [] OTHER -> << 80, 75, 3, 4, 0, 0 >>

\* struct.pack of an unsigned 16 / 32 bit field, little-endian
P16(x) == << x % 256, x \div 256 >>
P32(x) == << x % 256, (x \div 256) % 256, (x \div 65536) % 256, x \div 16777216 >>

\* an end record (structEndArchive) on one disk, followed by its comment
EndArchive(n, size, offset, comment) ==
  stringEndArchive \o << 0, 0, 0, 0 >> \o P16(n) \o P16(n) \o P32(size) \o P32(offset)
    \o P16(Len(comment)) \o comment

\* the byte sequences of the lengths 1 .. n over the bytes B
RECURSIVE BytesUpTo(_, _)
BytesUpTo(B, n) ==
  IF n = 0 THEN {}
  ELSE { << b >> : b \in B }
         \cup BytesUpTo(B, n - 1)
         \cup { Append(c, b) : c \in BytesUpTo(B, n - 1), b \in B }

\* the archives of no member that end with a comment: the comments are made of
\* the bytes of the end record's signature and of one other byte.  In front of the
\* end record there is nothing, or a ZIP64 locator and nothing before it, or a
\* ZIP64 record and a locator that counts two disks.
Comments == BytesUpTo({ 80, 75, 5, 6, 0 }, MaxComment)
Prefixes ==
  { << >>,
    Slice(FileBytes("Arch64"), Len(EntryRegion) + sizeEndCentDir64,
          Len(EntryRegion) + sizeEndCentDir64 + sizeEndCentDir64Locator),
    [Slice(FileBytes("Arch64"), Len(EntryRegion),
           Len(EntryRegion) + sizeEndCentDir64 + sizeEndCentDir64Locator)
       EXCEPT ![sizeEndCentDir64 + 17] = 2] }
CommentFile(pre, c) == pre \o EndArchive(0, 0, Len(pre), c)

(***************************************************************************)
(* 32-bit unsigned words as four bytes, least significant first: the       *)
(* arithmetic of ZipDecrypter and of CRC-32 needs all 32 bits.             *)
(***************************************************************************)
RECURSIVE Xor(_, _)
Xor(a, b) ==
  IF a = 0 THEN b
  ELSE IF b = 0 THEN a
  ELSE ((a + b) % 2) + 2 * Xor(a \div 2, b \div 2)

W32(b0, b1, b2, b3) == << b0, b1, b2, b3 >>
W32Xor(x, y) == << Xor(x[1], y[1]), Xor(x[2], y[2]), Xor(x[3], y[3]), Xor(x[4], y[4]) >>
W32Not(x) == << 255 - x[1], 255 - x[2], 255 - x[3], 255 - x[4] >>
\* x >> 1 and x >> 8
W32Shr1(x) ==
  << (x[1] \div 2) + 128 * (x[2] % 2), (x[2] \div 2) + 128 * (x[3] % 2),
     (x[3] \div 2) + 128 * (x[4] % 2), x[4] \div 2 >>
W32Shr8(x) == << x[2], x[3], x[4], 0 >>
\* the word of four column sums, carries propagated, reduced & 0xFFFFFFFF
W32Carry(l0, l1, l2, l3) ==
  LET c1 == l1 + (l0 \div 256)
      c2 == l2 + (c1 \div 256)
      c3 == l3 + (c2 \div 256)
  IN << l0 % 256, c1 % 256, c2 % 256, c3 % 256 >>
\* (x * 134775813 + 1) & 0xFFFFFFFF; 134775813 = 0x08088405
W32MulAdd(x) ==
  W32Carry(x[1] * 5 + 1,
           x[1] * 132 + x[2] * 5,
           x[1] * 8 + x[2] * 132 + x[3] * 5,
           x[1] * 8 + x[2] * 8 + x[3] * 132 + x[4] * 5)

\* ZipDecrypter._gen_crc: eight rounds of the CRC-32 polynomial 0xEDB88320
RECURSIVE GenCrcRounds(_, _)
GenCrcRounds(crc, k) ==
  IF k = 0 THEN crc
  ELSE GenCrcRounds(IF crc[1] % 2 = 1
                    THEN W32Xor(W32Shr1(crc), W32(32, 131, 184, 237))
                    ELSE W32Shr1(crc), k - 1)
_gen_crc(crc) == GenCrcRounds(crc, 8)

\* ZipDecrypter._crctable
_crctable == [i \in 0..255 |-> _gen_crc(W32(i, 0, 0, 0))]

\* ZipDecrypter._compute_crc32_byte
_compute_crc32_byte(ch, crc) == W32Xor(W32Shr8(crc), _crctable[Xor(crc[1], ch)])

\* zlib.crc32(data, value): the standard CRC-32, continued from value
RECURSIVE Crc32Fold(_, _)
Crc32Fold(data, c) ==
  IF data = << >> THEN c
  ELSE Eager(c, Crc32Fold(Tail(data), _compute_crc32_byte(Head(data), c)))
crc32(data, value) == W32Not(Crc32Fold(data, W32Not(value)))
Crc0 == W32(0, 0, 0, 0)

(***************************************************************************)
(* ZipDecrypter: the PKWARE traditional cipher.                            *)
(***************************************************************************)
\* ZipDecrypter._update_keys
\* key1 = (key1 + (key0 & 0xFF)) & 0xFFFFFFFF; key1 = (key1 * 134775813 + 1) & 0xFFFFFFFF
UpdateKey1(k) ==
  [k EXCEPT !.key1 = W32MulAdd(W32Carry(@[1] + k.key0[1], @[2], @[3], @[4]))]
\* key2 = _compute_crc32_byte((key1 >> 24) & 0xFF, key2)
UpdateKey2(k) == [k EXCEPT !.key2 = _compute_crc32_byte(k.key1[4], @)]
_update_keys(k, byte_value) ==
  UpdateKey2(UpdateKey1([k EXCEPT !.key0 = _compute_crc32_byte(byte_value, @)]))

\* ZipDecrypter.__init__
RECURSIVE UpdateKeysAll(_, _)
UpdateKeysAll(k, password) ==
  IF password = << >> THEN k
  ELSE Eager(k, UpdateKeysAll(_update_keys(k, Head(password)), Tail(password)))
ZipDecrypter(password) ==
  UpdateKeysAll([key0 |-> W32(120, 86, 52, 18), key1 |-> W32(137, 103, 69, 35),
                 key2 |-> W32(144, 120, 86, 52)], password)

\* the key-stream byte ((temp * (temp ^ 1)) >> 8) & 0xFF with temp = key2 | 2:
\* only the low 16 bits of temp reach bits 8..15 of the product
StreamByte(key2) ==
  LET lo == IF BitSet(key2[1], 2) THEN key2[1] ELSE key2[1] + 2
      lo1 == IF lo % 2 = 1 THEN lo - 1 ELSE lo + 1
      hi == key2[2]
  IN ((lo * lo1 + 256 * (lo * hi + lo1 * hi)) % 65536) \div 256

\* ZipDecrypter.decrypt: [k |-> keys afterwards, out |-> plaintext]
RECURSIVE DecryptLoop(_, _, _)
DecryptLoop(k, data, out) ==
  IF data = << >> THEN [k |-> k, out |-> out]
  ELSE LET decrypted_byte == Xor(Head(data), StreamByte(k.key2))
       IN Eager(<< k, out >>,
                DecryptLoop(_update_keys(k, decrypted_byte), Tail(data),
                            Append(out, decrypted_byte)))
decrypt(k, data) == DecryptLoop(k, data, << >>)

(***************************************************************************)
(* The codecs.  zlib.decompressobj(-15) and bz2.BZ2Decompressor are        *)
(* libraries; the model gives them a token code with their interface: a    *)
(* compressed byte t > 0 decodes to the two bytes t, t and the byte 0      *)
(* ends the stream (what follows is unused_data).  max_length bounds the   *)
(* output of one decompress call; input not yet looked at is the           *)
(* unconsumed_tail, output decoded but not yet returned stays inside the   *)
(* decompressor (pend) until the next call or flush().                     *)
(***************************************************************************)
EndOfStream == 0
Expand(t) == << t, t >>
NoDecomp == [eof |-> FALSE, pend |-> << >>, tail |-> << >>]

RECURSIVE InflateLoop(_, _, _, _)
InflateLoop(d, inp, out, max_length) ==
  IF d.eof \/ Len(out) >= max_length THEN [d |-> d, inp |-> inp, out |-> out]
  ELSE IF d.pend # << >>
  THEN InflateLoop([d EXCEPT !.pend = Tail(@)], inp, Append(out, Head(d.pend)), max_length)
  ELSE IF inp = << >> THEN [d |-> d, inp |-> inp, out |-> out]
  ELSE IF Head(inp) = EndOfStream
  THEN InflateLoop([d EXCEPT !.eof = TRUE], Tail(inp), out, max_length)
  ELSE InflateLoop([d EXCEPT !.pend = Expand(Head(inp))], Tail(inp), out, max_length)

\* zlib Decompress.decompress(data, max_length): [d, out]
Inflated(x) == [d |-> [x.d EXCEPT !.tail = IF x.d.eof THEN << >> ELSE x.inp], out |-> x.out]
Inflate(d, data, max_length) == Inflated(InflateLoop(d, data, << >>, max_length))

\* zlib Decompress.flush(): all pending input is processed, the rest of the output returned
Flushed(x) == [d |-> [x.d EXCEPT !.tail = << >>], out |-> x.out]
InflateFlush(d) == Flushed(InflateLoop(d, d.tail, << >>, MAX_N))

\* BZ2Decompressor.decompress(data): everything up to the end of the stream
Bunzipped(x, was_eof) ==
  [d |-> [x.d EXCEPT !.tail = << >>], out |-> x.out,
   err |-> IF was_eof THEN "EOFError" ELSE "none"]
Bunzip(d, data) == Bunzipped(InflateLoop(d, data, << >>, MAX_N), d.eof)

\* _get_decompressor: the exception it raises for a method code
_get_decompressor(compress_type) ==
  IF compress_type \in {ZIP_STORED, ZIP_DEFLATED, ZIP_BZIP2, ZIP_LZMA}
  THEN "none" ELSE "NotImplementedError"

(***************************************************************************)
(* The state.                                                              *)
(***************************************************************************)
VARIABLES
  archive,      \* the bytes of the file the byte source is
  filePassed,   \* ZipFile._filePassed: 1 when the caller supplied a file object
  zstate,       \* "new" before the constructor ran, "open", "closed", "failed"
  ctorErr,      \* the exception the constructor raised ("none" if it returned)
  fp,           \* ZipFile.fp is not None
  fileRefCnt,   \* ZipFile._fileRefCnt
  physClosed,   \* the physical file object has been closed
  fpos,         \* the cursor of the physical file
  filelist,     \* ZipFile.filelist
  start_dir,    \* ZipFile.start_dir
  _comment,     \* ZipFile._comment
  zpwd,         \* ZipFile.pwd (<< >> is None; setpassword is not among the calls explored)
  readers,      \* the readers returned by open(), by slot
  solo,         \* per slot, the same reader run as the only user of the file
  last,         \* the last call and its outcome
  ops,          \* number of calls so far, after the constructor
  threads,      \* per thread, where it is in open() or close() and what it holds
  lzmaUnit,     \* an LZMADecompressor and the bytes of the entry still to be passed to it
  loop,         \* the read or seek call in progress on the reader of slot 1, pass by pass
  beat          \* flips at every step the call in progress takes

vars == << archive, filePassed, zstate, ctorErr, fp, fileRefCnt, physClosed, fpos,
           filelist, start_dir, _comment, zpwd, readers, solo, last, ops, threads, lzmaUnit,
           loop, beat >>

File == archive

Ret(r, pos, data, err) == [r |-> r, fpos |-> pos, data |-> data, err |-> err]

(***************************************************************************)
(* _SharedFile.  The record of a reader holds its shared handle too:       *)
(* sf_open is "_file is not None", sf_pos is _pos.  The archive is         *)
(* read-only, so _writing() is always False.  g_seek records the last      *)
(* relative seek: << tracked offset before, offset, tracked offset after >>*)
(***************************************************************************)
\* _SharedFile.read
SharedFile_read(r, pos, n) ==
  IF ~r.sf_open THEN Ret(r, pos, << >>, "RuntimeError")
  ELSE IF physClosed THEN Ret(r, pos, << >>, "ValueError")
  ELSE LET data == IF n < 0 THEN SliceFrom(File, r.sf_pos)
                   ELSE Slice(File, r.sf_pos, r.sf_pos + n)
           newpos == r.sf_pos + Len(data)
       IN Ret([r EXCEPT !.sf_pos = newpos], newpos, data, "none")

\* the position self._file.seek(offset, whence) moves the physical cursor to
SeekTarget(r, pos, offset, whence) ==
  CASE whence = 0 -> offset
    [] whence = 1 -> pos + offset
    [] OTHER -> Len(File) + offset

\* _SharedFile.seek
SharedFile_seek(r, pos, offset, whence) ==
  IF ~r.sf_open THEN Ret(r, pos, << >>, "RuntimeError")
  ELSE IF physClosed THEN Ret(r, pos, << >>, "ValueError")
  ELSE LET newpos == SeekTarget(r, pos, offset, whence)
       IN IF newpos < 0 THEN Ret(r, pos, << >>, "OSError")
          ELSE Ret([r EXCEPT !.sf_pos = newpos,
                             !.g_seek = IF whence = 1 THEN << r.sf_pos, offset, newpos >>
                                        ELSE @],
                   newpos, << >>, "none")

\* _SharedFile.tell
SharedFile_tell(r) == r.sf_pos

(***************************************************************************)
(* ZipExtFile.                                                             *)
(***************************************************************************)
NoCrc == << >>
NoKeys == [key0 |-> Crc0, key1 |-> Crc0, key2 |-> Crc0]

\* an _update_crc that keeps the running CRC and never compares it
UpdateCrcUnchecked(r, newdata) ==
  [r |-> IF r.expected_crc = NoCrc THEN r
         ELSE [r EXCEPT !.running_crc = crc32(newdata, r.running_crc)],
   err |-> "none"]

\* _update_crc, the check at the end of the file
CrcChecked(r) ==
  IF r.eof /\ r.running_crc # r.expected_crc
  THEN [r |-> r, err |-> "BadZipFile: Bad CRC-32"]
  ELSE [r |-> r, err |-> "none"]

\* ZipExtFile._update_crc: [r, err]
ZipExtFile__update_crc(r, newdata) ==
  IF r.expected_crc = NoCrc THEN [r |-> r, err |-> "none"]
  ELSE CrcChecked([r EXCEPT !.running_crc = crc32(newdata, @)])

\* a _read2 that takes nothing off the compressed budget and returns an empty read
Read2Uncounted(x) ==
  IF x.err # "none" THEN x
  ELSE IF x.r.has_decrypter THEN Ret(x.r, x.fpos, << >>, "TypeError")
  ELSE Ret(x.r, x.fpos, x.data, "none")

\* _read2 after the read: x is the outcome of self._fileobj.read(n).
\* self._decrypter(data) calls a ZipDecrypter instance, and the class defines
\* decrypt() but no __call__: the call raises TypeError.
Read2Counted(x) ==
  LET r1 == [x.r EXCEPT !.compress_left = @ - Len(x.data)]
  IN IF x.err # "none" THEN x
     ELSE IF x.data = << >> THEN Ret(r1, x.fpos, << >>, "EOFError")
     ELSE IF r1.has_decrypter THEN Ret(r1, x.fpos, << >>, "TypeError")
     ELSE Ret(r1, x.fpos, x.data, "none")

\* ZipExtFile._read2
ZipExtFile__read2(r, pos, n) ==
  IF r.compress_left <= 0 THEN Ret(r, pos, << >>, "none")
  ELSE Read2Counted(SharedFile_read(r, pos, Min(Max(n, MIN_READ_SIZE), r.compress_left)))

\* a _read1 that hands on all the codec produced
Untruncated(data, left) == data

\* _read1: data = data[: self._left]
Truncate(data, left) == SliceTo(data, left)

\* _read1, the deflated block: y is the outcome of decompress(data, n)
Deflated(r, y, e, f) ==
  [r |-> [r EXCEPT !.decomp = f.d, !.eof = e], out |-> y.out \o f.out, err |-> "none"]
DeflateStep(r, y) ==
  LET e == y.d.eof \/ (r.compress_left <= 0 /\ y.d.tail = << >>)
  IN Deflated(r, y, e, IF e THEN InflateFlush(y.d) ELSE [d |-> y.d, out |-> << >>])

\* _read1, the bzip2 block: y is the outcome of decompress(data)
BunzipStep(r, y) ==
  IF y.err # "none" THEN [r |-> r, out |-> << >>, err |-> y.err]
  ELSE [r |-> [r EXCEPT !.decomp = y.d, !.eof = y.d.eof \/ r.compress_left <= 0],
        out |-> y.out, err |-> "none"]

\* _read1, "Process data based on compression type": [r, out, err]
Read1Decompress(r, data, n) ==
  IF r.compress_type = ZIP_STORED
  THEN [r |-> [r EXCEPT !.eof = r.compress_left <= 0], out |-> data, err |-> "none"]
  ELSE IF r.compress_type = ZIP_DEFLATED
  THEN DeflateStep(r, Inflate(r.decomp, data, Max(n, MIN_READ_SIZE)))
  ELSE BunzipStep(r, Bunzip(r.decomp, data))

\* _read1, the end: c is the outcome of _update_crc(data)
Read1Checked(c, pos, cut) ==
  IF c.err # "none" THEN Ret(c.r, pos, << >>, c.err) ELSE Ret(c.r, pos, cut, "none")

\* _read1, "Adjust data length and update internal state": cut is data[: self._left]
Read1Counted(r, pos, cut) ==
  Read1Checked(ZipExtFile__update_crc([r EXCEPT !.left = @ - Len(cut),
                                                !.eof = @ \/ (r.left - Len(cut) <= 0),
                                                !.g_hist = @ \o cut], cut),
               pos, cut)

Read1Truncated(dec, pos) ==
  IF dec.err # "none" THEN Ret(dec.r, pos, << >>, dec.err)
  ELSE Read1Counted(dec.r, pos, Truncate(dec.out, dec.r.left))

\* the part of _read1 after the block is read: decompress, truncate, check
Read1Process(r, pos, data, n) == Read1Truncated(Read1Decompress(r, data, n), pos)

\* _read1: the input the decompressor has not consumed yet
Read1Tail(r) == IF r.compress_type = ZIP_DEFLATED THEN r.decomp.tail ELSE << >>

\* _read1 after the block is read: x is the outcome of _read2
Read1Block(x, tail, n) ==
  IF x.err # "none" THEN x ELSE Read1Process(x.r, x.fpos, tail \o x.data, n)

\* ZipExtFile._read1
ZipExtFile__read1(r, pos, n) ==
  IF r.eof \/ n <= 0 THEN Ret(r, pos, << >>, "none")
  ELSE Read1Block(IF r.compress_type = ZIP_DEFLATED /\ n <= Len(Read1Tail(r))
                  THEN Ret(r, pos, << >>, "none")
                  ELSE ZipExtFile__read2(r, pos, n - Len(Read1Tail(r))),
                  Read1Tail(r), n)

RECURSIVE ReadAllLoop(_, _, _)
RECURSIVE ReadAllStep(_, _)
RECURSIVE ReadLoop(_, _, _, _)
RECURSIVE ReadStep(_, _, _)
RECURSIVE Read1AllLoop(_, _, _)
RECURSIVE Read1AllStep(_, _)
RECURSIVE Read1Loop(_, _, _, _)
RECURSIVE Read1Step(_, _, _)

\* the loop of read(n) for n < 0; x is the outcome of _read1
ReadAllLoop(r, pos, buf) ==
  IF r.eof THEN Ret(r, pos, buf, "none")
  ELSE ReadAllStep(ZipExtFile__read1(r, pos, MAX_N), buf)
ReadAllStep(x, buf) ==
  IF x.err # "none" THEN x
  ELSE Eager(x, ReadAllLoop(x.r, x.fpos, buf \o x.data))

\* the loop of read(n) for n >= 0
ReadLoop(r, pos, buf, n) ==
  IF n <= 0 \/ r.eof THEN Ret(r, pos, buf, "none")
  ELSE ReadStep(ZipExtFile__read1(r, pos, n), buf, n)
ReadStep(x, buf, n) ==
  IF x.err # "none" THEN x
  ELSE IF n < Len(x.data)
  THEN Ret([x.r EXCEPT !.readbuffer = x.data, !.offset = n],
           x.fpos, buf \o SliceTo(x.data, n), "none")
  ELSE Eager(x, ReadLoop(x.r, x.fpos, buf \o x.data, n - Len(x.data)))

\* the reader with its buffer taken out
Unbuffered(r) == [r EXCEPT !.readbuffer = << >>, !.offset = 0]

\* ZipExtFile.read
ZipExtFile_read(r, pos, n) ==
  IF r.closed THEN Ret(r, pos, << >>, "ValueError")
  ELSE IF n < 0
  THEN ReadAllLoop(Unbuffered(r), pos, SliceFrom(r.readbuffer, r.offset))
  ELSE LET end == n + r.offset
       IN IF end < Len(r.readbuffer)
          THEN Ret([r EXCEPT !.offset = end], pos, Slice(r.readbuffer, r.offset, end), "none")
          ELSE ReadLoop(Unbuffered(r), pos, SliceFrom(r.readbuffer, r.offset),
                        end - Len(r.readbuffer))

\* the loop of read1(n) for n < 0
Read1AllLoop(r, pos, buf) ==
  IF r.eof THEN Ret(r, pos, buf, "none")
  ELSE Read1AllStep(ZipExtFile__read1(r, pos, MAX_N), buf)
Read1AllStep(x, buf) ==
  IF x.err # "none" THEN x
  ELSE IF x.data # << >> THEN Ret(x.r, x.fpos, buf \o x.data, "none")
  ELSE Eager(x, Read1AllLoop(x.r, x.fpos, buf))

\* the loop of read1(n) for n >= 0
Read1Loop(r, pos, buf, n) ==
  IF r.eof THEN Ret(r, pos, buf, "none")
  ELSE Read1Step(ZipExtFile__read1(r, pos, n), buf, n)
Read1Step(x, buf, n) ==
  IF x.err # "none" THEN x
  ELSE IF n < Len(x.data)
  THEN Ret([x.r EXCEPT !.readbuffer = x.data, !.offset = n],
           x.fpos, buf \o SliceTo(x.data, n), "none")
  ELSE IF x.data # << >> THEN Ret(x.r, x.fpos, buf \o x.data, "none")
  ELSE Eager(x, Read1Loop(x.r, x.fpos, buf, n))

\* ZipExtFile.read1
ZipExtFile_read1(r, pos, n) ==
  IF n < 0
  THEN Read1AllLoop(Unbuffered(r), pos, SliceFrom(r.readbuffer, r.offset))
  ELSE LET end == n + r.offset
           m == end - Len(r.readbuffer)
       IN IF end < Len(r.readbuffer)
          THEN Ret([r EXCEPT !.offset = end], pos, Slice(r.readbuffer, r.offset, end), "none")
          ELSE IF m > 0
          THEN Read1Loop(Unbuffered(r), pos, SliceFrom(r.readbuffer, r.offset), m)
          ELSE Ret(Unbuffered(r), pos, SliceFrom(r.readbuffer, r.offset), "none")

\* peek: the slice returned
Peeked(r, pos) == Ret(r, pos, Slice(r.readbuffer, r.offset, r.offset + PeekMax), "none")

\* peek: the chunk that was read goes back in front of the buffer
PeekChunk(x) ==
  IF x.err # "none" THEN x
  ELSE Peeked(IF Len(x.data) > x.r.offset
              THEN [x.r EXCEPT !.readbuffer = x.data \o SliceFrom(x.r.readbuffer, x.r.offset),
                               !.offset = 0]
              ELSE [x.r EXCEPT !.offset = @ - Len(x.data)],
              x.fpos)

\* ZipExtFile.peek
ZipExtFile_peek(r, pos, n) ==
  IF n > Len(r.readbuffer) - r.offset THEN PeekChunk(ZipExtFile_read(r, pos, n))
  ELSE Peeked(r, pos)

\* ZipExtFile.tell (the value; the call raises on a closed reader)
ZipExtFile_tell(r) == r.orig_file_size - r.left - Len(r.readbuffer) + r.offset

\* _init_decrypter: dh is the outcome of decrypt(header)
HeaderDecrypted(x, dh) ==
  LET r2 == [x.r EXCEPT !.compress_left = @ - 12, !.decrypter = dh.k]
  IN IF Len(dh.out) < 12 THEN Ret(r2, x.fpos, << >>, "IndexError")
     ELSE Ret(r2, x.fpos, << dh.out[12] >>, "none")

\* _init_decrypter: x is the outcome of self._fileobj.read(12)
HeaderRead(x) ==
  IF x.err # "none" THEN x ELSE HeaderDecrypted(x, decrypt(x.r.decrypter, x.data))

\* ZipExtFile._init_decrypter: data is << the 12th byte of the decrypted header >>
ZipExtFile__init_decrypter(r, pos) ==
  IF r.pwd = << >> THEN Ret(r, pos, << >>, "RuntimeError")
  ELSE HeaderRead(SharedFile_read([r EXCEPT !.has_decrypter = TRUE,
                                            !.decrypter = ZipDecrypter(r.pwd)], pos, 12))

\* the loop at the end of seek: read and drop read_offset bytes
RECURSIVE SeekReplay(_, _, _)
RECURSIVE SeekReplayStep(_, _)
SeekReplay(r, pos, read_offset) ==
  IF read_offset <= 0 THEN Ret(r, pos, << >>, "none")
  ELSE SeekReplayStep(ZipExtFile_read(r, pos, Min(MAX_SEEK_READ, read_offset)),
                      read_offset - Min(MAX_SEEK_READ, read_offset))
SeekReplayStep(x, rest) ==
  IF x.err # "none" THEN Ret(x.r, x.fpos, << >>, x.err)
  ELSE Eager(x, SeekReplay(x.r, x.fpos, rest))

\* seek, "Reset state and seek from start": the fields of the reader put back
Rewound(r) ==
  [r EXCEPT !.running_crc = r.orig_start_crc,
            !.expected_crc = r.orig_crc,
            !.compress_left = r.orig_compress_size,
            !.left = r.orig_file_size,
            !.readbuffer = << >>,
            !.offset = 0,
            !.decomp = NoDecomp,
            !.eof = FALSE,
            !.g_hist = << >>]

\* d is the outcome of _init_decrypter
SeekResetKeyed(d, new_pos) ==
  IF d.err # "none" THEN Ret(d.r, d.fpos, << >>, d.err)
  ELSE SeekReplay(d.r, d.fpos, new_pos)

\* s is the outcome of self._fileobj.seek(self._orig_compress_start)
SeekResetSought(s, new_pos) ==
  IF s.err # "none" THEN s
  ELSE SeekResetKeyed(IF s.r.has_decrypter THEN ZipExtFile__init_decrypter(Rewound(s.r), s.fpos)
                      ELSE Ret(Rewound(s.r), s.fpos, << >>, "none"),
                      new_pos)

\* seek, the branch for a position before the current one: reset the reader
SeekReset(r, pos, new_pos) ==
  SeekResetSought(SharedFile_seek(r, pos, r.orig_compress_start, 0), new_pos)

\* s is the outcome of self._fileobj.seek(read_offset, os.SEEK_CUR)
SeekFastSought(s, off) ==
  IF s.err # "none" THEN s
  ELSE Ret([s.r EXCEPT !.left = @ - off, !.readbuffer = << >>, !.offset = 0],
           s.fpos, << >>, "none")

\* seek, the branch for a stored, unencrypted entry and a position ahead
SeekFast(r, pos, read_offset) ==
  SeekFastSought(SharedFile_seek([r EXCEPT !.expected_crc = NoCrc], pos,
                                 read_offset - (Len(r.readbuffer) - r.offset), 1),
                 read_offset - (Len(r.readbuffer) - r.offset))

\* seek: the position asked for, within 0 .. file size
SeekClamped(r, offset, whence) ==
  LET req == CASE whence = 0 -> offset
               [] whence = 1 -> ZipExtFile_tell(r) + offset
               [] OTHER -> r.orig_file_size + offset
  IN Max(Min(req, r.orig_file_size), 0)

\* seek to new_pos, read_offset bytes from the current position
SeekBy(r, pos, new_pos, read_offset) ==
  IF read_offset + r.offset >= 0 /\ read_offset + r.offset < Len(r.readbuffer)
  THEN Ret([r EXCEPT !.offset = read_offset + r.offset], pos, << >>, "none")
  ELSE IF r.compress_type = ZIP_STORED /\ ~r.has_decrypter /\ read_offset > 0
  THEN SeekFast(r, pos, read_offset)
  ELSE IF read_offset < 0 THEN SeekReset(r, pos, new_pos)
  ELSE SeekReplay(r, pos, read_offset)

SeekTo(r, pos, new_pos) == SeekBy(r, pos, new_pos, new_pos - ZipExtFile_tell(r))

\* ZipExtFile.seek; the value returned is ZipExtFile_tell of the reader after it
ZipExtFile_seek(r, pos, offset, whence) ==
  IF r.closed THEN Ret(r, pos, << >>, "ValueError")
  ELSE IF ~r.seekable THEN Ret(r, pos, << >>, "UnsupportedOperation")
  ELSE IF whence \notin {0, 1, 2} THEN Ret(r, pos, << >>, "ValueError")
  ELSE SeekTo(r, pos, SeekClamped(r, offset, whence))

(***************************************************************************)
(* ZipFile: locating and reading the central directory.                    *)
(***************************************************************************)
\* data.rfind(sub) over the starts 0..i: the last start at which sub occurs, or -1
RECURSIVE rfind(_, _, _)
rfind(data, sub, i) ==
  IF i < 0 THEN 0 - 1
  ELSE IF Slice(data, i, i + Len(sub)) = sub THEN i
  ELSE rfind(data, sub, i - 1)

NoEndRec == [found |-> FALSE, err |-> "none", signature |-> << >>, size_cd |-> 0,
             offset_cd |-> 0, location |-> 0, comment |-> << >>, zip64 |-> << >>,
             pos |-> 0]

\* struct.unpack(structEndArchive, rec), with the comment and the location appended
EndRec(rec, comment, location) ==
  [found |-> TRUE, err |-> "none", signature |-> Slice(rec, 0, 4),
   size_cd |-> LE32(rec, 12), offset_cd |-> LE32(rec, 16),
   location |-> location, comment |-> comment, zip64 |-> << >>, pos |-> 0]

\* _end_rec_data_64: offset is relative to the end of the file F.  The fields of a
\* ZIP64 record that is found are stored under the keys _ZIP64_SIGNATURE, ...,
\* _ZIP64_OFFSET, which are strings: they are added to the dictionary (zip64 holds
\* the record) and the items 0 .. 10, which _RealGetContents reads, stay as they were.
\* pos is where the calls leave the cursor of the file.
_end_rec_data_64(F, offset, endrec) ==
  LET lpos == Len(F) + offset - sizeEndCentDir64Locator
      loc == Slice(F, lpos, lpos + sizeEndCentDir64Locator)
      rpos == lpos - sizeEndCentDir64
      rec == Slice(F, rpos, rpos + sizeEndCentDir64)
      read == lpos + Len(loc)
  IN IF lpos < 0 THEN [endrec EXCEPT !.pos = Len(F)]
     ELSE IF Len(loc) # sizeEndCentDir64Locator THEN [endrec EXCEPT !.pos = read]
     ELSE IF Slice(loc, 0, 4) # stringEndArchive64Locator THEN [endrec EXCEPT !.pos = read]
     ELSE IF LE32(loc, 4) # 0 \/ LE32(loc, 16) > 1
     THEN [endrec EXCEPT !.err = "BadZipFile", !.pos = read]
     ELSE IF rpos < 0 THEN [endrec EXCEPT !.err = "OSError", !.pos = read]
     ELSE IF Len(rec) # sizeEndCentDir64 THEN [endrec EXCEPT !.pos = rpos + Len(rec)]
     ELSE IF Slice(rec, 0, 4) # stringEndArchive64 THEN [endrec EXCEPT !.pos = lpos]
     ELSE [endrec EXCEPT !.zip64 = rec, !.pos = lpos]

\* an _end_rec_data that leaves the comment of the record it found empty
EndRecAtNoComment(F, max_comment_start, data2, start) ==
  LET rec_data == Slice(data2, start, start + sizeEndCentDir)
  IN IF start < 0 THEN NoEndRec
     ELSE IF Len(rec_data) # sizeEndCentDir THEN NoEndRec
     ELSE _end_rec_data_64(F, max_comment_start + start - Len(F),
                           EndRec(rec_data, << >>, max_comment_start + start))

\* _end_rec_data, the record found at start in the tail data2 of the file
EndRecAt(F, max_comment_start, data2, start) ==
  LET rec_data == Slice(data2, start, start + sizeEndCentDir)
  IN IF start < 0 THEN NoEndRec
     ELSE IF Len(rec_data) # sizeEndCentDir THEN NoEndRec
     ELSE _end_rec_data_64(F, max_comment_start + start - Len(F),
            EndRec(rec_data,
                   Slice(data2, start + sizeEndCentDir,
                         start + sizeEndCentDir + LE16(rec_data, 20)),
                   max_comment_start + start))

\* _end_rec_data, the search for a record that is followed by a comment
EndRecSearch(F, max_comment_start, data2) ==
  EndRecAt(F, max_comment_start, data2, rfind(data2, stringEndArchive, Len(data2) - 4))

\* an _end_rec_data that takes the last signature in the file for a record,
\* whatever follows it
EndRecDataUnsized(F) ==
  IF rfind(F, stringEndArchive, Len(F) - 4) < 0 THEN NoEndRec
  ELSE [NoEndRec EXCEPT !.found = TRUE, !.signature = stringEndArchive,
                        !.location = rfind(F, stringEndArchive, Len(F) - 4)]

\* _end_rec_data on a file object of the operating system: seeking to a negative
\* position raises OSError
_end_rec_data(F) ==
  LET filesize == Len(F)
      data == SliceFrom(F, filesize - sizeEndCentDir)
      max_comment_start == Max(filesize - 65536 - sizeEndCentDir, 0)
  IN IF filesize < sizeEndCentDir THEN NoEndRec
     ELSE IF Len(data) = sizeEndCentDir /\ Slice(data, 0, 4) = stringEndArchive
             /\ SliceFrom(data, sizeEndCentDir - 2) = << 0, 0 >>
     THEN _end_rec_data_64(F, 0 - sizeEndCentDir, EndRec(data, << >>, filesize - sizeEndCentDir))
     ELSE EndRecSearch(F, max_comment_start, SliceFrom(F, max_comment_start))

\* a directory walk that gets past the assignment of x.CRC and keeps the first
\* record
DirectoryKeeping(F, endrec, sd) ==
  IF endrec.found /\ endrec.err = "none" /\ sd >= 0 /\ endrec.size_cd > 0
     /\ Slice(F, sd, sd + 4) = stringCentralDir /\ Len(F) >= sd + sizeCentralDir
  THEN [err |-> "none", start_dir |-> sd, fpos |-> sd + endrec.size_cd,
        filelist |-> << [orig_filename |-> << >>, filename |-> << >>,
                         header_offset |-> LE32(F, sd + 42) + sd - endrec.offset_cd,
                         compress_type |-> LE16(F, sd + 10),
                         compress_size |-> LE32(F, sd + 20),
                         file_size |-> LE32(F, sd + 24),
                         crc_value |-> Slice(F, sd + 16, sd + 20),
                         flag_bits |-> LE16(F, sd + 8), raw_time |-> LE16(F, sd + 12),
                         end_offset |-> sd] >>,
        comment |-> endrec.comment]
  ELSE [err |-> "BadZipFile", start_dir |-> NoneV, fpos |-> Len(F), filelist |-> << >>,
        comment |-> << >>]

\* _RealGetContents after the end record is read: sd is start_dir.  _comment and
\* start_dir are assigned before the directory is read.
DirectoryAt(F, endrec, sd) ==
  LET data == Slice(F, sd, sd + endrec.size_cd)
      centdir == Slice(data, 0, sizeCentralDir)
      after == Min(sd + endrec.size_cd, Max(Len(F), sd))
      None(e, p) == [err |-> e, start_dir |-> NoneV, fpos |-> p, filelist |-> << >>,
                     comment |-> << >>]
      Fail(e, p) == [err |-> e, start_dir |-> sd, fpos |-> p, filelist |-> << >>,
                     comment |-> endrec.comment]
  IN IF endrec.err = "OSError" THEN None("BadZipFile", endrec.pos)
     ELSE IF endrec.err # "none" THEN None(endrec.err, endrec.pos)
     ELSE IF ~endrec.found THEN None("BadZipFile", Len(F))
     ELSE IF sd < 0 THEN Fail("BadZipFile", endrec.pos)
     ELSE IF endrec.size_cd <= 0
     THEN [err |-> "none", start_dir |-> sd, fpos |-> sd, filelist |-> << >>,
           comment |-> endrec.comment]
     ELSE IF Len(centdir) # sizeCentralDir THEN Fail("BadZipFile", after)
     ELSE IF Slice(centdir, 0, 4) # stringCentralDir THEN Fail("BadZipFile", after)
     ELSE Fail("AttributeError", after)

\* _RealGetContents: concat = location - size_cd - offset_cd, less the size of the
\* ZIP64 structures when item _ECD_SIGNATURE is the ZIP64 signature
concat(endrec) ==
  endrec.location - endrec.size_cd - endrec.offset_cd
    - (IF endrec.signature = stringEndArchive64
       THEN sizeEndCentDir64 + sizeEndCentDir64Locator ELSE 0)

\* start_dir = offset_cd + concat
Directory(F, endrec) == DirectoryAt(F, endrec, endrec.offset_cd + concat(endrec))

\* ZipFile._RealGetContents: [err, start_dir, fpos, filelist, comment].  The record loop
\* assigns x.CRC, and ZipInfo.__slots__ has crc_value but no CRC: the first record
\* of a directory that is not empty raises AttributeError.
ZipFile__RealGetContents(F, pos) == Directory(F, _end_rec_data(F))

\* is_zipfile / _check_zipfile on a file of the bytes F: True when _end_rec_data
\* returns a record; an OSError is swallowed, any other exception escapes
is_zipfile(F) ==
  [err |-> IF _end_rec_data(F).err \in {"none", "OSError"} THEN "none"
           ELSE _end_rec_data(F).err,
   result |-> _end_rec_data(F).err = "none" /\ _end_rec_data(F).found]

\* a _fpclose that closes the file without looking at the count
FpcloseUncounted(cnt, pc) ==
  [cnt |-> cnt - 1, pc |-> pc \/ filePassed = 0, err |-> "none"]

\* a _fpclose that counts and never closes the file
FpcloseKeepsOpen(cnt, pc) ==
  IF cnt <= 0 THEN [cnt |-> cnt, pc |-> pc, err |-> "AssertionError"]
  ELSE [cnt |-> cnt - 1, pc |-> pc, err |-> "none"]

\* ZipFile._fpclose on the count and the state of the physical file
ZipFile__fpclose(cnt, pc) ==
  IF cnt <= 0 THEN [cnt |-> cnt, pc |-> pc, err |-> "AssertionError"]
  ELSE [cnt |-> cnt - 1, pc |-> pc \/ (cnt - 1 = 0 /\ filePassed = 0), err |-> "none"]

\* a _SharedFile.close that releases the count each time it is called
SharedCloseAgain(r, cnt, pc) ==
  [r |-> [r EXCEPT !.sf_open = FALSE], cnt |-> ZipFile__fpclose(cnt, pc).cnt,
   pc |-> ZipFile__fpclose(cnt, pc).pc, err |-> ZipFile__fpclose(cnt, pc).err]

\* _SharedFile.close
SharedFile_close(r, cnt, pc) ==
  IF r.sf_open
  THEN LET c == ZipFile__fpclose(cnt, pc)
       IN [r |-> [r EXCEPT !.sf_open = FALSE], cnt |-> c.cnt, pc |-> c.pc, err |-> c.err]
  ELSE [r |-> r, cnt |-> cnt, pc |-> pc, err |-> "none"]

\* ZipExtFile.close (close_fileobj is True for every reader open() returns)
ZipExtFile_close(r, cnt, pc) ==
  LET c == SharedFile_close(r, cnt, pc)
  IN [c EXCEPT !.r = [c.r EXCEPT !.closed = TRUE]]

(***************************************************************************)
(* Readers.  BlankReader is the content of a slot that holds no reader;    *)
(* the g_ fields are history the properties use, not program state:        *)
(*   g_zinfo, g_pwd  the arguments of the open() call that made the reader *)
(*   g_hist          the plain bytes handed to _update_crc since the       *)
(*                   reader was made or last reset                         *)
(*   g_seek          the last relative seek of the shared handle           *)
(*   g_trace         the calls made on the reader, oldest first            *)
(***************************************************************************)
NoInfo ==
  [orig_filename |-> << >>, filename |-> << >>, header_offset |-> 0,
   compress_type |-> ZIP_STORED, compress_size |-> 0, file_size |-> 0,
   crc_value |-> Crc0, flag_bits |-> 0, raw_time |-> NoneV, end_offset |-> NoneV]

BlankReader ==
  [made |-> FALSE, closed |-> FALSE, sf_open |-> FALSE, sf_pos |-> 0, name |-> << >>,
   compress_type |-> ZIP_STORED, compress_left |-> 0, left |-> 0, eof |-> FALSE,
   readbuffer |-> << >>, offset |-> 0, expected_crc |-> NoCrc, running_crc |-> Crc0,
   seekable |-> FALSE, orig_compress_start |-> 0, orig_compress_size |-> 0,
   orig_file_size |-> 0, orig_start_crc |-> Crc0, orig_crc |-> NoCrc,
   has_decrypter |-> FALSE, decrypter |-> NoKeys, pwd |-> << >>, decomp |-> NoDecomp,
   g_zinfo |-> NoInfo, g_pwd |-> << >>, g_hist |-> << >>, g_seek |-> << >>,
   g_trace |-> << >>]

\* an __init__ that accepts any header byte
PasswordUnchecked(h, check_byte) == TRUE

\* ZipExtFile.__init__: the test of the decrypted header against the check byte
PasswordMatches(h, check_byte) == h = check_byte

\* __init__: h is the outcome of _init_decrypter
HeaderChecked(h, check_byte) ==
  IF h.err # "none" THEN Ret(h.r, h.fpos, << >>, h.err)
  ELSE IF ~PasswordMatches(h.data[1], check_byte)
  THEN Ret(h.r, h.fpos, << >>, "RuntimeError: Bad password")
  ELSE Ret(h.r, h.fpos, << >>, "none")

\* ZipExtFile.__init__ on the shared handle zef; the source is a seekable file
ZipExtFile__init(zef, pos, zinfo, pwd) ==
  LET r0 == [zef EXCEPT !.made = TRUE, !.pwd = pwd,
                        !.compress_type = zinfo.compress_type,
                        !.compress_left = zinfo.compress_size,
                        !.left = zinfo.file_size,
                        !.name = zinfo.filename,
                        !.expected_crc = zinfo.crc_value,
                        !.running_crc = Crc0,
                        !.seekable = TRUE,
                        !.orig_compress_start = SharedFile_tell(zef),
                        !.orig_compress_size = zinfo.compress_size,
                        !.orig_file_size = zinfo.file_size,
                        !.orig_start_crc = Crc0,
                        !.orig_crc = zinfo.crc_value]
      dd == BitSet(zinfo.flag_bits, _MASK_USE_DATA_DESCRIPTOR)
  IN IF _get_decompressor(zinfo.compress_type) # "none"
     THEN Ret(zef, pos, << >>, "NotImplementedError")
     ELSE IF pwd = << >> THEN Ret(r0, pos, << >>, "none")
     ELSE IF dd /\ zinfo.raw_time = NoneV THEN Ret(r0, pos, << >>, "ValueError")
     ELSE HeaderChecked(ZipExtFile__init_decrypter(r0, pos),
                        IF dd THEN (zinfo.raw_time \div 256) % 256 ELSE zinfo.crc_value[4])

\* ZipFile.getinfo: NameToInfo holds, for a name, the descriptor appended last; the
\* position of that descriptor in the list, searched from i down, 0 when it is missing
RECURSIVE getinfo(_, _, _)
getinfo(list, fname, i) ==
  IF i < 1 THEN 0
  ELSE IF list[i].filename = fname THEN i
  ELSE getinfo(list, fname, i - 1)

\* ZipFile.namelist(): the file names of filelist, in its order
namelist(list) == [i \in 1 .. Len(list) |-> list[i].filename]

\* open, after the name and the extra field: e is the outcome of the seek over the
\* extra field, fname_str the decoding of the name read from the local header
OpenChecked(zinfo, pwd, fname_str, e) ==
  LET pwd1 == IF pwd = << >> THEN zpwd ELSE pwd
      is_encrypted == BitSet(zinfo.flag_bits, _MASK_ENCRYPTED)
  IN IF e.err # "none" THEN e
     ELSE IF BitSet(zinfo.flag_bits, _MASK_COMPRESSED_PATCH)
     THEN Ret(e.r, e.fpos, << >>, "NotImplementedError")
     ELSE IF BitSet(zinfo.flag_bits, _MASK_STRONG_ENCRYPTION)
     THEN Ret(e.r, e.fpos, << >>, "NotImplementedError")
     ELSE IF ~fname_str.ok THEN Ret(e.r, e.fpos, << >>, "UnicodeDecodeError")
     ELSE IF fname_str.s # zinfo.orig_filename
     THEN Ret(e.r, e.fpos, << >>, "BadZipFile: File name in directory and header differ")
     ELSE IF zinfo.end_offset # NoneV
             /\ SharedFile_tell(e.r) + zinfo.compress_size > zinfo.end_offset
     THEN Ret(e.r, e.fpos, << >>, "BadZipFile: Overlapped entries")
     ELSE IF is_encrypted /\ pwd1 = << >>
     THEN Ret(e.r, e.fpos, << >>, "RuntimeError: password required")
     ELSE ZipExtFile__init(e.r, e.fpos, zinfo, IF is_encrypted THEN pwd1 ELSE << >>)

\* open, after the header: f is the outcome of the read of the name
OpenNamed(zinfo, pwd, fheader, f) ==
  IF f.err # "none" THEN f
  ELSE OpenChecked(zinfo, pwd, decode(f.data, LE16(fheader, 6)),
                   IF LE16(fheader, 28) # 0
                   THEN SharedFile_seek(f.r, f.fpos, LE16(fheader, 28), 1)
                   ELSE Ret(f.r, f.fpos, << >>, "none"))

\* open: h is the outcome of the read of the local header
OpenHeader(zinfo, pwd, h) ==
  IF h.err # "none" THEN h
  ELSE IF Len(h.data) # sizeFileHeader
  THEN Ret(h.r, h.fpos, << >>, "BadZipFile: Truncated file header")
  ELSE IF Slice(h.data, 0, 4) # stringFileHeader
  THEN Ret(h.r, h.fpos, << >>, "BadZipFile: Bad magic number for file header")
  ELSE OpenNamed(zinfo, pwd, h.data, SharedFile_read(h.r, h.fpos, LE16(h.data, 26)))

\* an open that writes into the descriptor it is given
OpenTryWritesInfo(zinfo, pwd, pos) ==
  OpenHeader(zinfo, pwd,
             SharedFile_read([BlankReader EXCEPT !.sf_open = TRUE,
                                                 !.sf_pos = zinfo.header_offset,
                                                 !.g_zinfo = [zinfo EXCEPT !.end_offset =
                                                                zinfo.header_offset],
                                                 !.g_pwd = pwd],
                             pos, sizeFileHeader))

\* ZipFile.open, the try block: the local header is read and checked against the
\* ZipInfo, then the reader is made
OpenTry(zinfo, pwd, pos) ==
  OpenHeader(zinfo, pwd,
             SharedFile_read([BlankReader EXCEPT !.sf_open = TRUE,
                                                 !.sf_pos = zinfo.header_offset,
                                                 !.g_zinfo = zinfo, !.g_pwd = pwd],
                             pos, sizeFileHeader))

\* open: what the call leaves when it raises e before the file is touched
NotOpened(pos, cnt, pc, e) ==
  [made |-> FALSE, r |-> BlankReader, fpos |-> pos, cnt |-> cnt, pc |-> pc, err |-> e]

\* an open whose failure leaves the shared handle it made open
OpenedUnreleased(t, cnt, pc) ==
  IF t.err # "none"
  THEN [made |-> FALSE, r |-> BlankReader, fpos |-> t.fpos, cnt |-> cnt + 1, pc |-> pc,
        err |-> t.err]
  ELSE [made |-> TRUE, r |-> t.r, fpos |-> t.fpos, cnt |-> cnt + 1, pc |-> pc,
        err |-> "none"]

\* open: t is the outcome of the try block; an exception closes the shared handle
Opened(t, cnt, pc) ==
  LET c == SharedFile_close(t.r, cnt + 1, pc)
  IN IF t.err # "none"
     THEN [made |-> FALSE, r |-> BlankReader, fpos |-> t.fpos, cnt |-> c.cnt, pc |-> c.pc,
           err |-> t.err]
     ELSE [made |-> TRUE, r |-> t.r, fpos |-> t.fpos, cnt |-> cnt + 1, pc |-> pc,
           err |-> "none"]

\* an open that does not look at self.fp
OpenUnguarded(call, pos, cnt, pc) ==
  IF call.info THEN Opened(OpenTry(call.zinfo, call.pwd, pos), cnt, pc)
  ELSE IF getinfo(filelist, call.fname, Len(filelist)) = 0 THEN NotOpened(pos, cnt, pc, "KeyError")
  ELSE Opened(OpenTry(filelist[getinfo(filelist, call.fname, Len(filelist))], call.pwd, pos), cnt, pc)

\* ZipFile.open: [made, r, fpos, cnt, pc, err].  call.info tells whether call.zinfo
\* (a ZipInfo) or call.fname (a member name) is the argument.
ZipFile_open(call, pos, cnt, pc) ==
  IF ~fp THEN NotOpened(pos, cnt, pc, "ValueError")
  ELSE IF call.info THEN Opened(OpenTry(call.zinfo, call.pwd, pos), cnt, pc)
  ELSE IF getinfo(filelist, call.fname, Len(filelist)) = 0 THEN NotOpened(pos, cnt, pc, "KeyError")
  ELSE Opened(OpenTry(filelist[getinfo(filelist, call.fname, Len(filelist))], call.pwd, pos), cnt, pc)

(***************************************************************************)
(* ZipFile.extract on a POSIX build: os.path.sep is "/", os.path.altsep is *)
(* None and os.path.splitdrive finds no drive.  Names and paths are        *)
(* sequences of code points.                                               *)
(***************************************************************************)
NoTarget == [slashes |-> 0, comps |-> << >>]
os_sep == << 47 >>
curdir == << 46 >>
pardir == << 46, 46 >>

\* s.split(c): the pieces of s between the occurrences of the character c
RECURSIVE split(_, _, _, _)
split(s, c, i, piece) ==
  IF i > Len(s) THEN << piece >>
  ELSE IF s[i] = c THEN << piece >> \o split(s, c, i + 1, << >>)
  ELSE split(s, c, i + 1, Append(piece, s[i]))

\* sep.join(x for x in parts if x not in drop)
RECURSIVE join_kept(_, _, _, _)
join_kept(parts, drop, i, acc) ==
  IF i > Len(parts) THEN acc
  ELSE IF parts[i] \in drop THEN join_kept(parts, drop, i + 1, acc)
  ELSE join_kept(parts, drop, i + 1, IF acc = << >> THEN parts[i] ELSE acc \o os_sep \o parts[i])

\* _sanitize_filename: the name up to its first null byte (os.sep is "/")
RECURSIVE _sanitize_filename(_)
_sanitize_filename(filename) ==
  IF filename = << >> \/ Head(filename) = 0 THEN << >>
  ELSE << Head(filename) >> \o _sanitize_filename(Tail(filename))

\* os.path.join(a, b)
os_path_join(a, b) ==
  IF b # << >> /\ Head(b) = os_sep[1] THEN b
  ELSE IF a = << >> \/ a[Len(a)] = os_sep[1] THEN a \o b
  ELSE a \o os_sep \o b

\* os.path.normpath, the loop over the components: a ".." removes the component
\* before it, and stays when there is none to remove and the path is relative
RECURSIVE NormComps(_, _, _, _)
NormComps(comps, i, initial_slashes, new_comps) ==
  IF i > Len(comps) THEN new_comps
  ELSE IF comps[i] \in { << >>, curdir } THEN NormComps(comps, i + 1, initial_slashes, new_comps)
  ELSE IF comps[i] # pardir \/ (initial_slashes = 0 /\ new_comps = << >>)
          \/ (new_comps # << >> /\ new_comps[Len(new_comps)] = pardir)
  THEN NormComps(comps, i + 1, initial_slashes, Append(new_comps, comps[i]))
  ELSE NormComps(comps, i + 1, initial_slashes,
                 IF new_comps # << >> THEN SubSeq(new_comps, 1, Len(new_comps) - 1)
                 ELSE new_comps)

\* the number of slashes normpath keeps at the front of the path
InitialSlashes(path) ==
  IF path = << >> \/ Head(path) # os_sep[1] THEN 0
  ELSE IF Len(path) >= 2 /\ path[2] = os_sep[1] /\ ~(Len(path) >= 3 /\ path[3] = os_sep[1]) THEN 2
  ELSE 1

\* os.path.normpath(path), as its components: [slashes, comps]
normpath(path) ==
  [slashes |-> InitialSlashes(path),
   comps |-> NormComps(split(path, os_sep[1], 1, << >>), 1, InitialSlashes(path), << >>)]

\* ZipInfo.is_dir()
is_dir(member) == member.filename # << >> /\ member.filename[Len(member.filename)] = os_sep[1]

\* _extract_member: arcname is the name without its empty, "." and ".." components
arcname(member) ==
  join_kept(split(member.filename, os_sep[1], 1, << >>), { << >>, curdir, pardir }, 1, << >>)

\* a target path that keeps every component of the name
TargetUnfiltered(member, targetpath) ==
  normpath(os_path_join(targetpath, member.filename))

\* _extract_member: the target is normpath(join(targetpath, arcname))
TargetOf(member, targetpath) ==
  normpath(os_path_join(targetpath, arcname(member)))

\* ZipExtFile.read(n) until it returns no bytes (shutil.copyfileobj, testzip):
\* x is the outcome of the read before, out the bytes read so far
RECURSIVE Drain(_, _, _)
Drain(x, n, out) ==
  IF x.err # "none" \/ x.data = << >> THEN [x EXCEPT !.data = out]
  ELSE Drain(ZipExtFile_read(x.r, x.fpos, n), n, out \o x.data)

\* _extract_member, the copy: o is the outcome of self.open(member, pwd=pwd).
\* The with statement closes the reader whatever happens after open returned;
\* shutil.copyfileobj reads 65536 bytes at a time.
Extracted(o, target, env) ==
  LET x == IF env = "create" THEN Ret(o.r, o.fpos, << >>, "OSError")
           ELSE Drain(ZipExtFile_read(o.r, o.fpos, 65536), 65536, << >>)
      c == ZipExtFile_close(x.r, o.cnt, o.pc)
  IN IF ~o.made
     THEN [err |-> o.err, target |-> target, wrote |-> FALSE, data |-> << >>,
           fpos |-> o.fpos, cnt |-> o.cnt, pc |-> o.pc]
     ELSE [err |-> x.err, target |-> target, wrote |-> env # "create", data |-> x.data,
           fpos |-> x.fpos, cnt |-> c.cnt, pc |-> c.pc]

\* ZipFile._extract_member(member, targetpath, pwd) for a ZipInfo member: env is
\* what the file system does, "makedirs" when the directories cannot be made,
\* "create" when the target cannot be opened for writing, "ok" otherwise
ZipFile__extract_member(member, targetpath, pwd, env, pos, cnt, pc) ==
  IF arcname(member) = << >> /\ ~is_dir(member)
  THEN [err |-> "ValueError", target |-> NoTarget, wrote |-> FALSE, data |-> << >>,
        fpos |-> pos, cnt |-> cnt, pc |-> pc]
  ELSE IF env = "makedirs" \/ is_dir(member)
  THEN [err |-> IF env = "makedirs" THEN "OSError" ELSE "none",
        target |-> TargetOf(member, targetpath), wrote |-> FALSE, data |-> << >>,
        fpos |-> pos, cnt |-> cnt, pc |-> pc]
  ELSE Extracted(ZipFile_open([info |-> TRUE, zinfo |-> member, fname |-> member.filename,
                               pwd |-> pwd], pos, cnt, pc),
                 TargetOf(member, targetpath), env)

\* the messages of the exception class BadZipFile
BadZipFile ==
  { "BadZipFile", "BadZipFile: Bad CRC-32", "BadZipFile: Bad magic number for file header",
    "BadZipFile: File name in directory and header differ", "BadZipFile: Overlapped entries",
    "BadZipFile: Truncated file header" }

\* testzip, leaving the loop on an exception: BadZipFile alone is caught and
\* the name of the entry returned, any other exception reaches the caller
TestzipOutcome(err, name, pos, cnt, pc) ==
  [err |-> IF err \in BadZipFile THEN "none" ELSE err, found |-> err \in BadZipFile,
   name |-> IF err \in BadZipFile THEN name ELSE << >>, fpos |-> pos, cnt |-> cnt, pc |-> pc]

\* ZipFile.testzip(): the descriptors of list from the i-th on, each opened by
\* its name and read 2**20 bytes at a time until a read returns nothing.
\* Returns the name of the first whose open or reads raise BadZipFile, None
\* (found is FALSE) when the list is exhausted.
RECURSIVE ZipFile_testzip(_, _, _, _, _)
\* x is the outcome of the reads; the with statement closes the reader
TestzipDrained(list, i, o, x) ==
  LET c == ZipExtFile_close(x.r, o.cnt, o.pc)
  IN IF x.err = "none" THEN ZipFile_testzip(list, i + 1, x.fpos, c.cnt, c.pc)
     ELSE TestzipOutcome(x.err, list[i].filename, x.fpos, c.cnt, c.pc)

\* o is the outcome of self.open(zinfo.filename, "r")
TestzipOpened(list, i, o) ==
  IF ~o.made THEN TestzipOutcome(o.err, list[i].filename, o.fpos, o.cnt, o.pc)
  ELSE TestzipDrained(list, i, o,
                      Drain(ZipExtFile_read(o.r, o.fpos, 1048576), 1048576, << >>))

ZipFile_testzip(list, i, pos, cnt, pc) ==
  IF i > Len(list)
  THEN [err |-> "none", found |-> FALSE, name |-> << >>, fpos |-> pos, cnt |-> cnt,
        pc |-> pc]
  ELSE TestzipOpened(list, i,
                     ZipFile_open([info |-> FALSE, zinfo |-> NoInfo,
                                   fname |-> list[i].filename, pwd |-> << >>],
                                  pos, cnt, pc))

(***************************************************************************)
(* The calls explored.  The ZipInfo objects are the ones a caller builds   *)
(* for the members of the fixture (open() takes a ZipInfo as well as a     *)
(* name), honest and not.                                                  *)
(***************************************************************************)
\* the slots for the readers that are open at the same time
Slots == {1, 2}
PwdP == << 112 >>
PwdQ == << 113 >>
NameA == << 97 >>
NameB == << 98 >>
DataA == Slice(EntryRegion, 33, 39)
PlainA == InflateFlush([NoDecomp EXCEPT !.tail = DataA]).out

Info(fname, hdr, type, csize, fsize, crc, flags) ==
  [orig_filename |-> fname, filename |-> fname, header_offset |-> hdr,
   compress_type |-> type, compress_size |-> csize, file_size |-> fsize,
   crc_value |-> crc, flag_bits |-> flags, raw_time |-> NoneV, end_offset |-> NoneV]

InfoA == Info(NameA, 0, ZIP_STORED, 6, 6, crc32(DataA, Crc0), 0)
InfoB == Info(NameB, 39, ZIP_STORED, 15, 3, W32(0, 0, 0, 90), 1)

\* the member at 39 of ArchUtf, by the name its header's byte 0x82 decodes to
InfoE == Info(<< 233 >>, 39, ZIP_STORED, 3, 3, crc32(<< 6, 7, 8 >>, Crc0), 0)

Descriptors ==
  { InfoA,
    [InfoA EXCEPT !.crc_value = Crc0],
    [InfoA EXCEPT !.end_offset = 39],
    [InfoA EXCEPT !.end_offset = 38],
    [InfoA EXCEPT !.compress_size = 4],
    [InfoA EXCEPT !.compress_size = 4, !.crc_value = crc32(SliceTo(DataA, 4), Crc0)],
    [InfoA EXCEPT !.compress_type = ZIP_DEFLATED, !.crc_value = crc32(PlainA, Crc0)],
    [InfoA EXCEPT !.compress_type = ZIP_DEFLATED, !.file_size = 4,
                  !.crc_value = crc32(SliceTo(PlainA, 4), Crc0)],
    [InfoA EXCEPT !.compress_type = ZIP_BZIP2, !.crc_value = crc32(PlainA, Crc0)],
    [InfoA EXCEPT !.compress_type = 99],
    [InfoA EXCEPT !.flag_bits = _MASK_COMPRESSED_PATCH],
    [InfoA EXCEPT !.flag_bits = _MASK_STRONG_ENCRYPTION],
    [InfoA EXCEPT !.orig_filename = NameB],
    [InfoA EXCEPT !.header_offset = 5],
    [InfoA EXCEPT !.header_offset = 100],
    InfoB,
    [InfoB EXCEPT !.crc_value = Crc0, !.flag_bits = 9, !.raw_time = 23040],
    [InfoB EXCEPT !.flag_bits = 9],
    [InfoB EXCEPT !.crc_value = crc32(<< 6, 7, 8 >>, Crc0), !.flag_bits = 9,
                  !.raw_time = 23040],
    [InfoB EXCEPT !.flag_bits = 0, !.compress_size = 40, !.file_size = 40],
    InfoE }

\* open() ignores the password of a member that is not encrypted; one such call
\* is kept.  The reader in slot 2 is there to share the file with the one in slot 1.
Call(d, p) == [info |-> TRUE, zinfo |-> d, fname |-> d.filename, pwd |-> p]

OpenCalls ==
  { Call(d, << >>) : d \in Descriptors }
  \cup { Call(d, p) : d \in { x \in Descriptors : BitSet(x.flag_bits, _MASK_ENCRYPTED) },
                      p \in { PwdP, PwdQ } }
  \cup { Call(InfoA, PwdP) }
  \cup { [info |-> FALSE, zinfo |-> NoInfo, fname |-> NameA, pwd |-> << >>] }

OtherCalls == { Call(InfoA, << >>), Call(InfoB, PwdP) }

CallsOf(rid) == IF rid = 1 THEN OpenCalls ELSE OtherCalls

ReadArgs == { 0 - 1, 1, MaxArg }
PeekArgs == { 1, MaxArg }
SeekCalls == { << k, 0 >> : k \in 1 .. MaxArg } \cup { << 0 - 1, 1 >>, << 0 - 1, 2 >> }

NoLast ==
  [op |-> "none", rid |-> 0, n |-> 0, whence |-> 0, err |-> "none", data |-> << >>,
   pre |-> BlankReader, soloErr |-> "none", soloData |-> << >>, target |-> NoTarget,
   wrote |-> FALSE]

\* no LZMADecompressor has been made
NoUnit ==
  [made |-> FALSE, decomp |-> FALSE, unconsumed |-> << >>, eof |-> FALSE, props |-> << >>,
   inits |-> 0, fed |-> << >>, out |-> << >>, err |-> "none", rest |-> << >>,
   entry |-> << >>]

\* no read or seek call is in progress
NoLoop ==
  [kind |-> "idle", reading |-> FALSE, n |-> 0, read_offset |-> 0, read_len |-> 0,
   err |-> "none", passes |-> 0, turns |-> 0, calls |-> 0, how |-> "none"]

\* the threads of the handle, and a thread that has called nothing yet
Threads == 1 .. NThreads

IdleThread ==
  [pc |-> "idle", local |-> 0, live |-> FALSE, zinfo |-> NoInfo, calls |-> 0, err |-> "none"]

\* the state before the constructor runs on one of the files
Start(files) ==
  /\ archive \in files
  /\ filePassed \in {0, 1}
  /\ zstate = "new"
  /\ ctorErr = "none"
  /\ fp = FALSE
  /\ fileRefCnt = 0
  /\ physClosed = FALSE
  /\ fpos = 0
  /\ filelist = << >>
  /\ start_dir = NoneV
  /\ _comment = << >>
  /\ zpwd = << >>
  /\ readers = [i \in Slots |-> BlankReader]
  /\ solo = [i \in Slots |-> BlankReader]
  /\ last = NoLast
  /\ ops = 0
  /\ threads = [t \in Threads |-> IdleThread]
  /\ lzmaUnit = NoUnit
  /\ loop = NoLoop
  /\ beat = 0

Init == Start({ FileBytes(a) : a \in Archives })

\* ZipFile(file): _fileRefCnt = 1, the directory is read, and a failure closes
\* the handle through _fpclose
Construct ==
  /\ zstate = "new"
  /\ \E g \in { ZipFile__RealGetContents(File, fpos) },
        c \in { ZipFile__fpclose(1, physClosed) } :
        /\ ctorErr' = g.err
        /\ fpos' = g.fpos
        /\ start_dir' = g.start_dir
        /\ _comment' = g.comment
        /\ filelist' = g.filelist
        /\ zstate' = IF g.err = "none" THEN "open" ELSE "failed"
        /\ fp' = (g.err = "none")
        /\ fileRefCnt' = IF g.err = "none" THEN 1 ELSE c.cnt
        /\ physClosed' = IF g.err = "none" THEN physClosed ELSE c.pc
        /\ last' = [NoLast EXCEPT !.op = "init", !.err = g.err]
  /\ UNCHANGED << beat, loop, lzmaUnit, threads, archive, filePassed, zpwd, readers, solo, ops >>

\* is_zipfile(file), called before the handle is made
IsZipfile ==
  /\ zstate = "new"
  /\ last.op = "none"
  /\ \E z \in { is_zipfile(File) } :
        last' = [NoLast EXCEPT !.op = "is_zipfile", !.err = z.err,
                               !.data = IF z.result THEN << 1 >> ELSE << >>]
  /\ UNCHANGED << beat, loop, lzmaUnit, threads, archive, filePassed, zstate, ctorErr, fp, fileRefCnt, physClosed, fpos,
                  filelist, start_dir, _comment, zpwd, readers, solo, ops >>

Usable == zstate \in {"open", "closed"}

\* ZipFile.open(name, "r", pwd); the reader it returns goes to the free slot rid
Open(rid, call) ==
  /\ Usable
  /\ ops < MaxOps
  /\ ~readers[rid].made
  /\ IF rid = 1 THEN TRUE ELSE readers[rid - 1].made
  /\ \E o \in { ZipFile_open(call, fpos, fileRefCnt, physClosed) } :
        /\ fpos' = o.fpos
        /\ fileRefCnt' = o.cnt
        /\ physClosed' = o.pc
        /\ readers' = [readers EXCEPT ![rid] = o.r]
        /\ solo' = [solo EXCEPT ![rid] = o.r]
        /\ last' = [NoLast EXCEPT !.op = "open", !.rid = rid, !.err = o.err,
                                  !.pre = [BlankReader EXCEPT !.g_zinfo = call.zinfo,
                                                              !.g_pwd = call.pwd]]
  /\ ops' = ops + 1
  /\ UNCHANGED << beat, loop, lzmaUnit, threads, archive, _comment, filePassed, zstate, ctorErr, fp, filelist, start_dir, zpwd >>

\* the reader after a call, with the call noted in its trace
Traced(r, op, n, whence) == [r EXCEPT !.g_trace = Append(@, << op, n, whence >>)]

\* the effect of a call on the reader in slot rid: x is the outcome on the shared
\* file, sx the outcome of the same call on the same reader alone on the file
Called(rid, op, n, whence, x, sx) ==
  /\ fpos' = x.fpos
  /\ readers' = [readers EXCEPT ![rid] = Traced(x.r, op, n, whence)]
  /\ solo' = [solo EXCEPT ![rid] = Traced(sx.r, op, n, whence)]
  /\ last' = [op |-> op, rid |-> rid, n |-> n, whence |-> whence, err |-> x.err,
              data |-> x.data, pre |-> readers[rid], soloErr |-> sx.err,
              soloData |-> sx.data, target |-> NoTarget, wrote |-> FALSE]
  /\ ops' = ops + 1
  /\ UNCHANGED << beat, loop, lzmaUnit, threads, archive, _comment, filePassed, zstate, ctorErr, fp, fileRefCnt, physClosed,
                  filelist, start_dir, zpwd >>

\* reader.read(n)
Read(rid, n) ==
  /\ readers[rid].made
  /\ ops < MaxOps
  /\ Called(rid, "read", n, 0, ZipExtFile_read(readers[rid], fpos, n),
            ZipExtFile_read(solo[rid], solo[rid].sf_pos, n))

\* reader.read1(n)
Read1(rid, n) ==
  /\ readers[rid].made
  /\ ops < MaxOps
  /\ Called(rid, "read1", n, 0, ZipExtFile_read1(readers[rid], fpos, n),
            ZipExtFile_read1(solo[rid], solo[rid].sf_pos, n))

\* reader.peek(n)
Peek(rid, n) ==
  /\ readers[rid].made
  /\ ops < MaxOps
  /\ Called(rid, "peek", n, 0, ZipExtFile_peek(readers[rid], fpos, n),
            ZipExtFile_peek(solo[rid], solo[rid].sf_pos, n))

\* reader.seek(offset, whence)
Seek(rid, offset, whence) ==
  /\ readers[rid].made
  /\ ops < MaxOps
  /\ Called(rid, "seek", offset, whence, ZipExtFile_seek(readers[rid], fpos, offset, whence),
            ZipExtFile_seek(solo[rid], solo[rid].sf_pos, offset, whence))

\* reader.close()
CloseReader(rid) ==
  /\ readers[rid].made
  /\ ops < MaxOps
  /\ \E c \in { ZipExtFile_close(readers[rid], fileRefCnt, physClosed) } :
        /\ readers' = [readers EXCEPT ![rid] = Traced(c.r, "close", 0, 0)]
        /\ solo' = [solo EXCEPT ![rid] = Traced(ZipExtFile_close(@, 1, FALSE).r, "close", 0, 0)]
        /\ fileRefCnt' = c.cnt
        /\ physClosed' = c.pc
        /\ last' = [NoLast EXCEPT !.op = "close", !.rid = rid, !.err = c.err,
                                  !.pre = readers[rid]]
  /\ ops' = ops + 1
  /\ UNCHANGED << beat, loop, lzmaUnit, threads, archive, _comment, filePassed, zstate, ctorErr, fp, fpos, filelist, start_dir,
                  zpwd >>

\* ZipFile.close(): nothing happens when fp is None already
ZipFile_close ==
  /\ Usable
  /\ ops < MaxOps
  /\ \E c \in { IF fp THEN ZipFile__fpclose(fileRefCnt, physClosed)
                 ELSE [cnt |-> fileRefCnt, pc |-> physClosed, err |-> "none"] } :
        /\ fp' = FALSE
        /\ zstate' = "closed"
        /\ fileRefCnt' = c.cnt
        /\ physClosed' = c.pc
        /\ last' = [NoLast EXCEPT !.op = "zipclose", !.err = c.err]
  /\ ops' = ops + 1
  /\ UNCHANGED << beat, loop, lzmaUnit, threads, archive, _comment, filePassed, ctorErr, fpos, filelist, start_dir, zpwd, readers,
                  solo >>

Next ==
  \/ Construct
  \/ \E rid \in Slots : \E call \in CallsOf(rid) : Open(rid, call)
  \/ \E rid \in Slots, n \in ReadArgs : Read(rid, n)
  \/ \E rid \in Slots, n \in PeekArgs : Read1(rid, n)
  \/ \E rid \in Slots, n \in PeekArgs : Peek(rid, n)
  \/ \E rid \in Slots, c \in SeekCalls : Seek(rid, c[1], c[2])
  \/ \E rid \in Slots : CloseReader(rid)
  \/ ZipFile_close

Spec == Init /\ [][Next]_vars

(***************************************************************************)
(* The constructor alone, on more files: the named ones and the archives   *)
(* of no member that end with a comment.                                   *)
(***************************************************************************)
DirFiles ==
  { FileBytes(a) : a \in Archives \cup
                         {"Arch64", "Arch64Comment", "ArchCut", "ArchCutFixed", "ArchExtra",
                          "ArchFar", "ArchNeg", "ArchUni"} }
    \cup { CommentFile(pre, c) : pre \in Prefixes, c \in Comments }
    \cup Comments \cup { SliceTo(FileBytes("ArchEmpty"), k) : k \in 0 .. 4 }
    \cup { SliceFrom(FileBytes("ArchEmpty"), Len(EntryRegion) + k) : k \in 1 .. 4 }
    \cup { SliceTo(TailEmpty, Len(TailEmpty) - k) : k \in 1 .. 4 }

InitDir == Start(DirFiles)

NextDir == Construct \/ IsZipfile

SpecDir == InitDir /\ [][NextDir]_vars

(***************************************************************************)
(* Several threads on one handle.  ZipFile.open and ZipFile._fpclose       *)
(* change _fileRefCnt with no lock held (the lock of the handle is taken   *)
(* by _SharedFile.read and _SharedFile.seek only), so a thread may be      *)
(* suspended between the read and the write of "+= 1" and "-= 1": each is  *)
(* two steps here.  A thread holds at most one reader, which it alone      *)
(* closes; one caller closes the handle itself.                            *)
(*   pc     where the thread is: "idle", "incr_load", "incr_store",        *)
(*          "open_body", "fpclose_assert", "fpclose_load",                 *)
(*          "fpclose_store", "fpclose_test"                                *)
(*   local  the value of _fileRefCnt the thread has read                   *)
(*   live   the _SharedFile the thread made has a file (_file is not None) *)
(*   zinfo  the argument of the open() the thread is in                    *)
(*   calls  the calls the thread has begun                                 *)
(*   err    what the last call of the thread raised                        *)
(***************************************************************************)
\* the descriptors the threads open: the member at 0, and one whose header
\* offset is not the offset of a header
ThreadInfos == { InfoA, [InfoA EXCEPT !.header_offset = 1] }

ThreadFrame ==
  UNCHANGED << beat, loop, lzmaUnit, archive, filePassed, ctorErr, filelist, start_dir, _comment, zpwd, readers,
               solo, last, ops >>

\* open(zinfo), up to the statement that counts: the test of self.fp
OpenBegin(t, zinfo) ==
  /\ Usable
  /\ threads[t].pc = "idle"
  /\ ~threads[t].live
  /\ threads[t].calls < MaxThreadCalls
  /\ threads' = [threads EXCEPT ![t].calls = @ + 1,
                                ![t].zinfo = zinfo,
                                ![t].err = IF fp THEN "none" ELSE "ValueError",
                                ![t].pc = IF fp THEN "incr_load" ELSE "idle"]
  /\ UNCHANGED << zstate, fp, fileRefCnt, physClosed, fpos >>
  /\ ThreadFrame

\* self._fileRefCnt += 1, the read
IncrLoad(t) ==
  /\ threads[t].pc = "incr_load"
  /\ threads' = [threads EXCEPT ![t].local = fileRefCnt, ![t].pc = "incr_store"]
  /\ UNCHANGED << zstate, fp, fileRefCnt, physClosed, fpos >>
  /\ ThreadFrame

\* self._fileRefCnt += 1, the write
IncrStore(t) ==
  /\ threads[t].pc = "incr_store"
  /\ fileRefCnt' = threads[t].local + 1
  /\ threads' = [threads EXCEPT ![t].pc = "open_body"]
  /\ UNCHANGED << zstate, fp, physClosed, fpos >>
  /\ ThreadFrame

\* the rest of open: _SharedFile(self.fp, ...) reads file.seekable, which
\* raises AttributeError outside the try block when the handle has been closed
\* meanwhile; the try block returns the reader or closes the shared handle
\* and raises
OpenBody(t) ==
  /\ threads[t].pc = "open_body"
  /\ \E o \in { OpenTry(threads[t].zinfo, << >>, fpos) } :
       IF ~fp
       THEN /\ threads' = [threads EXCEPT ![t].err = "AttributeError", ![t].pc = "idle"]
            /\ UNCHANGED fpos
       ELSE /\ fpos' = o.fpos
            /\ threads' = [threads EXCEPT ![t].err = o.err,
                                          ![t].live = (o.err = "none"),
                                          ![t].pc = IF o.err = "none" THEN "idle"
                                                    ELSE "fpclose_assert"]
  /\ UNCHANGED << zstate, fp, fileRefCnt, physClosed >>
  /\ ThreadFrame

\* close() of the reader the thread holds, up to the call of _fpclose:
\* _SharedFile.close clears _file
ReaderCloseBegin(t) ==
  /\ threads[t].pc = "idle"
  /\ threads[t].live
  /\ threads[t].calls < MaxThreadCalls
  /\ threads' = [threads EXCEPT ![t].calls = @ + 1, ![t].err = "none", ![t].live = FALSE,
                                ![t].pc = "fpclose_assert"]
  /\ UNCHANGED << zstate, fp, fileRefCnt, physClosed, fpos >>
  /\ ThreadFrame

\* ZipFile.close(), up to the call of _fpclose: self.fp = None
ArchiveCloseBegin(t) ==
  /\ zstate = "open"
  /\ threads[t].pc = "idle"
  /\ threads[t].calls < MaxThreadCalls
  /\ zstate' = "closed"
  /\ fp' = FALSE
  /\ threads' = [threads EXCEPT ![t].calls = @ + 1, ![t].err = "none",
                                ![t].pc = "fpclose_assert"]
  /\ UNCHANGED << fileRefCnt, physClosed, fpos >>
  /\ ThreadFrame

\* _fpclose: assert self._fileRefCnt > 0
FpcloseAssert(t) ==
  /\ threads[t].pc = "fpclose_assert"
  /\ threads' = [threads EXCEPT ![t].err = IF fileRefCnt > 0 THEN @ ELSE "AssertionError",
                                ![t].pc = IF fileRefCnt > 0 THEN "fpclose_load" ELSE "idle"]
  /\ UNCHANGED << zstate, fp, fileRefCnt, physClosed, fpos >>
  /\ ThreadFrame

\* _fpclose: self._fileRefCnt -= 1, the read
FpcloseLoad(t) ==
  /\ threads[t].pc = "fpclose_load"
  /\ threads' = [threads EXCEPT ![t].local = fileRefCnt, ![t].pc = "fpclose_store"]
  /\ UNCHANGED << zstate, fp, fileRefCnt, physClosed, fpos >>
  /\ ThreadFrame

\* _fpclose: self._fileRefCnt -= 1, the write
FpcloseStore(t) ==
  /\ threads[t].pc = "fpclose_store"
  /\ fileRefCnt' = threads[t].local - 1
  /\ threads' = [threads EXCEPT ![t].pc = "fpclose_test"]
  /\ UNCHANGED << zstate, fp, physClosed, fpos >>
  /\ ThreadFrame

\* _fpclose: if not self._fileRefCnt and not self._filePassed: fp.close()
FpcloseTest(t) ==
  /\ threads[t].pc = "fpclose_test"
  /\ physClosed' = (physClosed \/ (fileRefCnt = 0 /\ filePassed = 0))
  /\ threads' = [threads EXCEPT ![t].pc = "idle"]
  /\ UNCHANGED << zstate, fp, fileRefCnt, fpos >>
  /\ ThreadFrame

InitThreads == Start({ FileBytes("ArchEmpty") })

NextThreads ==
  \/ Construct
  \/ \E t \in Threads, zinfo \in ThreadInfos : OpenBegin(t, zinfo)
  \/ \E t \in Threads : IncrLoad(t)
  \/ \E t \in Threads : IncrStore(t)
  \/ \E t \in Threads : OpenBody(t)
  \/ \E t \in Threads : ReaderCloseBegin(t)
  \/ \E t \in Threads : ArchiveCloseBegin(t)
  \/ \E t \in Threads : FpcloseAssert(t)
  \/ \E t \in Threads : FpcloseLoad(t)
  \/ \E t \in Threads : FpcloseStore(t)
  \/ \E t \in Threads : FpcloseTest(t)

SpecThreads == InitThreads /\ [][NextThreads]_vars

(***************************************************************************)
(* The LZMA unit alone: LZMADecompressor is given the bytes of an entry in *)
(* successive calls of decompress.  An entry is a 4-byte header (two       *)
(* version bytes and the length of the properties, little-endian), the     *)
(* properties and the data.  The raw decoder is the token codec: a byte    *)
(* t > 0 decodes to t, t and the byte 0 ends the stream.                   *)
(*   decomp      self._decomp is not None                                  *)
(*   unconsumed  self._unconsumed                                          *)
(*   props       the properties of the last raw decoder asked for          *)
(*   inits       the raw decoders made                                     *)
(*   fed, out    the bytes given to the raw decoder, the bytes returned    *)
(*   rest, entry the bytes of the entry not yet passed, and all of them    *)
(***************************************************************************)
\* the keys lzma accepts in the specifier of an LZMA1 filter, and the keys of
\* the specifier decompress builds: {"id": FILTER_LZMA1, "props": filter_props}
LzmaFilterKeys ==
  {"id", "preset", "dict_size", "lc", "lp", "pb", "mode", "nice_len", "mf", "depth"}
FilterSpecKeys == {"id", "props"}

\* lzma.LZMADecompressor(FORMAT_RAW, filters=[spec]): a specifier with a key
\* that is not a key of the filter raises ValueError
lzma_LZMADecompressor(keys) == IF keys \subseteq LzmaFilterKeys THEN "none" ELSE "ValueError"

\* the raw decoder on data: [out, eof]
RECURSIVE RawDecode(_, _)
RawDecode(data, out) ==
  IF data = << >> THEN [out |-> out, eof |-> FALSE]
  ELSE IF Head(data) = 0 THEN [out |-> out, eof |-> TRUE]
  ELSE RawDecode(Tail(data), out \o << Head(data), Head(data) >>)

\* self._decomp.decompress(data) and the assignment of eof; a raw decoder at
\* the end of its stream raises EOFError
LzmaFeed(u, data) ==
  IF u.eof THEN [u EXCEPT !.err = "EOFError"]
  ELSE [u EXCEPT !.fed = @ \o data,
                 !.out = @ \o RawDecode(data, << >>).out,
                 !.eof = RawDecode(data, << >>).eof,
                 !.err = "none"]

\* decompress on a unit that has no raw decoder yet: b is self._unconsumed
\* with the data added
LzmaBuffered(u, b) ==
  IF Len(b) <= 4 THEN [u EXCEPT !.unconsumed = b, !.err = "none"]
  ELSE IF Len(b) <= 4 + LE16(b, 2) THEN [u EXCEPT !.unconsumed = b, !.err = "none"]
  ELSE IF lzma_LZMADecompressor(FilterSpecKeys) # "none"
  THEN [u EXCEPT !.unconsumed = b, !.props = Slice(b, 4, 4 + LE16(b, 2)),
                 !.err = lzma_LZMADecompressor(FilterSpecKeys)]
  ELSE LzmaFeed([u EXCEPT !.unconsumed = << >>, !.decomp = TRUE, !.inits = @ + 1,
                          !.props = Slice(b, 4, 4 + LE16(b, 2))],
                SliceFrom(b, 4 + LE16(b, 2)))

\* LZMADecompressor.decompress(data)
LZMADecompressor_decompress(u, data) ==
  IF ~u.decomp THEN LzmaBuffered(u, u.unconsumed \o data) ELSE LzmaFeed(u, data)

\* the entries: a header that announces n bytes of properties, n bytes, and
\* up to MaxData bytes of data; and what is left of them when the end is cut
LzmaWhole ==
  { << 9, 4, n, 0 >> \o [i \in 1 .. n |-> 93] \o d :
      n \in 0 .. MaxProps, d \in { << >> } \cup BytesUpTo({ 0, 1, 2 }, MaxData) }
LzmaEntries == LzmaWhole \cup { SliceTo(e, k) : e \in LzmaWhole, k \in 0 .. 4 }

LzmaFrame ==
  UNCHANGED << beat, loop, threads, archive, filePassed, zstate, ctorErr, fp, fileRefCnt, physClosed,
               fpos, filelist, start_dir, _comment, zpwd, readers, solo, last, ops >>

\* LZMADecompressor(), for the entry e
LzmaInit(e) ==
  /\ ~lzmaUnit.made
  /\ lzmaUnit' = [NoUnit EXCEPT !.made = TRUE, !.rest = e, !.entry = e]
  /\ LzmaFrame

\* decompress on the next k bytes of the entry
LzmaDecompress(k) ==
  /\ lzmaUnit.made
  /\ k <= Len(lzmaUnit.rest)
  /\ k > 0 \/ lzmaUnit.err = "none"
  /\ lzmaUnit' = [LZMADecompressor_decompress(lzmaUnit, SliceTo(lzmaUnit.rest, k))
                    EXCEPT !.rest = SliceFrom(lzmaUnit.rest, k)]
  /\ LzmaFrame

InitLzma == Start({ << >> })

NextLzma ==
  \/ \E e \in LzmaEntries : LzmaInit(e)
  \/ \E k \in 0 .. MaxChunk : LzmaDecompress(k)

SpecLzma == InitLzma /\ [][NextLzma]_vars

(***************************************************************************)
(* extract on a handle, with ZipInfo objects a caller builds for the       *)
(* member "a": ZipInfo(name), and ZipInfo("a") given the filename of       *)
(* ZipInfo(name).  The names are made of "/", ".", "a" and the null byte.  *)
(***************************************************************************)
ExtractNames == { << >> } \cup BytesUpTo({ 47, 46, 97, 0 }, MaxName)

ExtractMembers ==
  { [InfoA EXCEPT !.orig_filename = o, !.filename = _sanitize_filename(n)] :
      n \in ExtractNames, o \in { NameA } }
  \cup { [InfoA EXCEPT !.orig_filename = n, !.filename = _sanitize_filename(n)] :
           n \in ExtractNames }

\* the destinations "/d", "d/" and ".."
Dests == { << 47, 100 >>, << 100, 47 >>, pardir }

\* ZipFile.extract(member, path): the call leaves no reader behind
Extract(member, path, env) ==
  /\ Usable
  /\ ops < MaxCalls
  /\ \E e \in { ZipFile__extract_member(member, path, << >>, env, fpos, fileRefCnt,
                                         physClosed) } :
        /\ fpos' = e.fpos
        /\ fileRefCnt' = e.cnt
        /\ physClosed' = e.pc
        /\ last' = [NoLast EXCEPT !.op = "extract", !.err = e.err, !.data = path,
                                  !.soloData = e.data, !.target = e.target,
                                  !.wrote = e.wrote,
                                  !.pre = [BlankReader EXCEPT !.g_zinfo = member]]
  /\ ops' = ops + 1
  /\ UNCHANGED << beat, loop, lzmaUnit, threads, archive, _comment, filePassed, zstate, ctorErr, fp, filelist, start_dir,
                  zpwd, readers, solo >>

\* ZipFile.testzip() on a handle: last.data is the name returned, last.n is 1
\* when a name was returned and 0 when None was
Testzip ==
  /\ Usable
  /\ ops < MaxCalls
  /\ \E t \in { ZipFile_testzip(filelist, 1, fpos, fileRefCnt, physClosed) } :
        /\ fpos' = t.fpos
        /\ fileRefCnt' = t.cnt
        /\ physClosed' = t.pc
        /\ last' = [NoLast EXCEPT !.op = "testzip", !.err = t.err, !.data = t.name,
                                  !.n = IF t.found THEN 1 ELSE 0]
  /\ ops' = ops + 1
  /\ UNCHANGED << beat, loop, lzmaUnit, threads, archive, _comment, filePassed, zstate, ctorErr, fp, filelist, start_dir,
                  zpwd, readers, solo >>

MemberFiles ==
  { FileBytes("ArchEmpty"), FileBytes("ArchUtf"), FileBytes("ArchDir"), FileBytes("ArchDup") }

InitMember == Start(MemberFiles)

NextMember ==
  \/ Construct
  \/ \E member \in ExtractMembers, path \in Dests, env \in {"ok", "makedirs", "create"} :
       Extract(member, path, env)
  \/ Testzip

SpecMember == InitMember /\ [][NextMember]_vars

(***************************************************************************)
(* Properties.                                                             *)
(***************************************************************************)
ReaderOps == {"read", "read1", "peek", "seek"}
AllClosed == \A rid \in Slots : readers[rid].made => readers[rid].closed

\* C1: once the archive handle exists, the physical source is closed if and only
\* if the handle opened it from a path, the handle is closed and every reader
\* open() returned is closed; so it is not closed while a reader is open, and a
\* file object the caller supplied is never closed.
C1_SourceClosedIff ==
  Usable => (physClosed <=> (filePassed = 0 /\ zstate = "closed" /\ AllClosed))

\* a reader outlived the handle and its close closed the source
C1_LastReaderClosesSource ==
  /\ physClosed
  /\ zstate = "closed"
  /\ last.op = "close"
  /\ ~last.pre.closed

\* C2: with several readers on one archive, every read, read1, peek and seek of a
\* reader has the outcome (exception, bytes returned, position) that the same
\* call has on the same reader when it is the only user of the file.
C2_ReadersIndependent ==
  last.op \in ReaderOps =>
    /\ last.err = last.soloErr
    /\ last.data = last.soloData
    /\ ZipExtFile_tell(readers[last.rid]) = ZipExtFile_tell(solo[last.rid])

\* C3: a relative seek of a shared handle starts from the handle's own tracked
\* offset: the tracked offset after it is the tracked offset before it plus the
\* offset asked for, wherever another handle left the cursor of the file.
C3_SeekFromTrackedOffset ==
  \A rid \in Slots :
    LET g == readers[rid].g_seek
    IN g # << >> => g[3] = g[1] + g[2]

\* the layout of the fixture: where the local headers of its members are
MemberOffsets == {0, 39}
\* the first byte after the data of the member whose header is at h: the header of
\* the next member, or the central directory
NextBoundary(h) ==
  IF \E o \in MemberOffsets : o > h
  THEN CHOOSE o \in MemberOffsets : o > h /\ \A q \in MemberOffsets : q > h => o <= q
  ELSE start_dir
\* the offset just past the local header, the name and the extra bytes
DataStart(d) ==
  d.header_offset + sizeFileHeader + LE16(File, d.header_offset + 26)
    + LE16(File, d.header_offset + 28)

\* C4: open() returns no reader for an entry whose data start plus compressed
\* size exceeds the header offset of the next entry (the start of the central
\* directory for the last one): every reader there is lies within its bounds.
C4_OverlapRejected ==
  \A rid \in Slots :
    readers[rid].made =>
      LET d == readers[rid].g_zinfo
      IN DataStart(d) + d.compress_size <= NextBoundary(d.header_offset)

\* C5: a call that brings a reader to the end of its entry, while the expected
\* CRC is still set and differs from the CRC-32 of all the plain bytes the reader
\* consumed, raises BadZipFile("Bad CRC-32 ...") and returns nothing.
C5_BadCrcRaises ==
  last.op \in ReaderOps =>
    LET R == readers[last.rid]
    IN (~last.pre.eof /\ R.eof /\ R.expected_crc # NoCrc
          /\ crc32(R.g_hist, Crc0) # R.expected_crc)
       => last.err = "BadZipFile: Bad CRC-32"

\* a read reached the end of an entry whose recorded CRC is wrong, and raised
C5_BadCrcSeen ==
  /\ last.op = "read"
  /\ last.err = "BadZipFile: Bad CRC-32"
  /\ readers[last.rid].eof
  /\ ~last.pre.eof
  /\ crc32(readers[last.rid].g_hist, Crc0) # readers[last.rid].expected_crc

\* the CRC-32 field of the central directory record of member "a"
DirCrcA == Slice(TailDir, 16, 20)

\* C6: for the stored member "a" of the well-formed archive ArchDir, the handle
\* is constructed, lists the member, and open("a").read() returns file_size
\* bytes, checked against the CRC-32 of the member's central directory record,
\* which is the CRC-32 of the bytes returned.
C6_StoredEntryReads ==
  (archive = FileBytes("ArchDir") /\ zstate # "new") =>
    /\ ctorErr = "none"
    /\ \E i \in 1 .. Len(filelist) :
         /\ filelist[i].filename = NameA
         /\ LET o == ZipFile_open([info |-> FALSE, zinfo |-> NoInfo, fname |-> NameA,
                                   pwd |-> << >>], fpos, 1, FALSE)
                x == ZipExtFile_read(o.r, o.fpos, 0 - 1)
            IN /\ o.err = "none"
               /\ o.r.expected_crc = DirCrcA
               /\ x.err = "none"
               /\ Len(x.data) = filelist[i].file_size
               /\ crc32(x.data, Crc0) = DirCrcA

\* read() on a fresh open of the entry the reader r was opened on
FreshRead(r) ==
  LET o == OpenTry(r.g_zinfo, r.g_pwd, 0)
  IN ZipExtFile_read(o.r, o.fpos, 0 - 1)

\* C7: on a freshly opened reader of a seekable stored entry (compressed size
\* equal to file size, content matching the CRC), seek(k) with 0 <= k <= file_size
\* followed by read(n), n >= 0, returns read()[k:k+n] of a fresh open of the entry.
C7_SeekThenRead ==
  \A rid \in Slots :
    LET R == readers[rid]
        t == R.g_trace
    IN (/\ R.made
        /\ R.seekable
        /\ R.compress_type = ZIP_STORED
        /\ R.orig_compress_size = R.orig_file_size
        /\ Len(t) = 2
        /\ t[1][1] = "seek" /\ t[1][3] = 0 /\ t[1][2] >= 0 /\ t[1][2] <= R.orig_file_size
        /\ t[2][1] = "read" /\ t[2][2] >= 0
        /\ last.op = "read" /\ last.rid = rid
        /\ FreshRead(R).err = "none")
       => /\ last.err = "none"
          /\ last.data = Slice(FreshRead(R).data, t[1][2], t[1][2] + t[2][2])

\* the check byte of an encrypted entry
CheckByte(d) ==
  IF BitSet(d.flag_bits, _MASK_USE_DATA_DESCRIPTOR) THEN (d.raw_time \div 256) % 256
  ELSE d.crc_value[4]
\* the entry's 12-byte encryption header, decrypted with the password p
PlainHeader(d, p) == decrypt(ZipDecrypter(p), Slice(File, DataStart(d), DataStart(d) + 12)).out
\* open() gets as far as the password: the archive is open and the local header
\* at d.header_offset is a header of the entry d describes
HeaderAccepted(d) ==
  /\ zstate = "open"
  /\ d.header_offset + sizeFileHeader <= Len(File)
  /\ Slice(File, d.header_offset, d.header_offset + 4) = stringFileHeader
  /\ Slice(File, d.header_offset + sizeFileHeader, DataStart(d) - LE16(File, d.header_offset + 28))
       = d.orig_filename
  /\ ~BitSet(d.flag_bits, _MASK_COMPRESSED_PATCH)
  /\ ~BitSet(d.flag_bits, _MASK_STRONG_ENCRYPTION)
  /\ d.end_offset = NoneV \/ DataStart(d) + d.compress_size <= d.end_offset
  /\ d.compress_type \in {ZIP_STORED, ZIP_DEFLATED, ZIP_BZIP2, ZIP_LZMA}
\* p is a wrong password for the encrypted entry d
WrongPassword(d, p) ==
  /\ BitSet(d.flag_bits, _MASK_ENCRYPTED)
  /\ p # << >>
  /\ BitSet(d.flag_bits, _MASK_USE_DATA_DESCRIPTOR) => d.raw_time # NoneV
  /\ Len(PlainHeader(d, p)) = 12
  /\ PlainHeader(d, p)[12] # CheckByte(d)

\* C8: open() of an encrypted entry with a password whose decrypted header ends
\* in a byte other than the check byte raises RuntimeError("Bad password ...")
\* and leaves no reader: nothing of the entry can be read.
C8_WrongPasswordRejected ==
  (/\ last.op = "open"
   /\ last.pre.g_zinfo # NoInfo
   /\ HeaderAccepted(last.pre.g_zinfo)
   /\ WrongPassword(last.pre.g_zinfo, last.pre.g_pwd))
  => /\ last.err = "RuntimeError: Bad password"
     /\ ~readers[last.rid].made

\* open() was given a wrong password for the encrypted member and refused
C8_WrongPasswordSeen ==
  /\ last.op = "open"
  /\ last.pre.g_zinfo # NoInfo
  /\ HeaderAccepted(last.pre.g_zinfo)
  /\ WrongPassword(last.pre.g_zinfo, last.pre.g_pwd)
  /\ last.err = "RuntimeError: Bad password"

\* C9: whatever is called on a reader, the plain bytes it has passed on never
\* exceed the declared size of the entry, its count of bytes left is never
\* negative, and its position lies between 0 and the declared size.
C9_DeclaredSizeBounds ==
  \A rid \in Slots :
    LET R == readers[rid]
    IN R.made =>
         /\ R.left >= 0
         /\ ZipExtFile_tell(R) >= 0
         /\ ZipExtFile_tell(R) <= R.orig_file_size
         /\ Len(R.g_hist) <= R.orig_file_size
         /\ (last.rid = rid /\ last.op \in ReaderOps) => Len(last.data) <= R.orig_file_size

\* a deflated entry whose stream decodes to more than its declared size was read
\* to its end: the reader passed on the declared number of bytes only
C9_CodecOutputCut ==
  \E rid \in Slots :
    LET R == readers[rid]
    IN /\ R.made
       /\ R.compress_type = ZIP_DEFLATED
       /\ R.decomp.eof
       /\ R.orig_file_size < Len(PlainA)
       /\ R.left = 0
       /\ Len(R.g_hist) = R.orig_file_size
       /\ last.rid = rid /\ last.op = "read" /\ last.err = "none"

\* C10: a read() to the end of the entry that returns without raising returns
\* all the bytes the entry still declares, in every state of the reader (after a
\* seek too): data that ends early is an error, never a short result.
C10_ShortDataRaises ==
  (last.op = "read" /\ last.n < 0 /\ last.err = "none")
  => Len(last.data) = last.pre.orig_file_size - ZipExtFile_tell(last.pre)

\* C11: when the constructor raised while it read the directory, the handle has
\* no file (fp is None), its reference count is zero, and the file it opened
\* from a path is closed.
C11_FailedCtorReleases ==
  zstate = "failed" =>
    /\ ctorErr # "none"
    /\ ~fp
    /\ fileRefCnt = 0
    /\ filePassed = 0 => physClosed

\* the constructor raised on a file it had opened from a path
C11_FailedCtorSeen ==
  /\ zstate = "failed"
  /\ last.op = "init"
  /\ last.err # "none"
  /\ filePassed = 0
  /\ physClosed

\* C12: every read, read1, peek and seek on a reader that has been closed raises,
\* whatever the buffer and the position of the reader were when it was closed.
C12_ClosedReaderFails ==
  (last.op \in ReaderOps /\ last.pre.closed) => last.err # "none"

ReaderCloseStep == last'.op = "close" /\ ops' = ops + 1
HandleCloseStep == last'.op = "zipclose" /\ ops' = ops + 1

\* C14: the first close() of a reader, and of the archive handle, releases the
\* reference count once; every later close() raises nothing and changes nothing
\* (the count, the physical file, its cursor, the reader, the handle).
C14_CloseIdempotent ==
  [][/\ ReaderCloseStep =>
          /\ last'.err = "none"
          /\ readers'[last'.rid].closed
          /\ fileRefCnt' = IF readers[last'.rid].closed THEN fileRefCnt ELSE fileRefCnt - 1
          /\ readers[last'.rid].closed =>
               /\ physClosed' = physClosed
               /\ fpos' = fpos
               /\ readers' = [readers EXCEPT
                                ![last'.rid] = Traced(@, "close", 0, 0)]
     /\ HandleCloseStep =>
          /\ last'.err = "none"
          /\ ~fp'
          /\ fileRefCnt' = IF fp THEN fileRefCnt - 1 ELSE fileRefCnt
          /\ ~fp => (physClosed' = physClosed /\ fpos' = fpos /\ readers' = readers)
    ]_vars

\* a reader that was closed already has been closed again
C14_ClosedTwiceSeen ==
  /\ last.op = "close"
  /\ last.pre.closed
  /\ last.err = "none"
  /\ readers[last.rid].closed
  /\ ~readers[last.rid].sf_open

(***************************************************************************)
(* Properties of open() and of the constructor on damaged and unsupported  *)
(* input.                                                                  *)
(***************************************************************************)
\* the descriptor open() was called with
CalledInfo == last.pre.g_zinfo
OpenedByInfo == zstate = "open" /\ last.op = "open" /\ CalledInfo # NoInfo

\* the bytes at z.header_offset of F are a whole local header with the signature
\* and a name that decodes to z.orig_filename
LocalHeader(F, z) == Slice(F, z.header_offset, z.header_offset + sizeFileHeader)
LocalName(F, z) ==
  decode(Slice(F, z.header_offset + sizeFileHeader,
               z.header_offset + sizeFileHeader + LE16(LocalHeader(F, z), 26)),
         LE16(LocalHeader(F, z), 6))
LocalHeaderOk(F, z) ==
  /\ Len(LocalHeader(F, z)) = sizeFileHeader
  /\ Slice(LocalHeader(F, z), 0, 4) = stringFileHeader
  /\ LocalName(F, z).ok
  /\ LocalName(F, z).s = z.orig_filename

UnsupportedMethod(z) == z.compress_type \notin {ZIP_STORED, ZIP_DEFLATED, ZIP_BZIP2, ZIP_LZMA}
UnsupportedFlag(z) ==
  BitSet(z.flag_bits, _MASK_COMPRESSED_PATCH) \/ BitSet(z.flag_bits, _MASK_STRONG_ENCRYPTION)

\* C15: open() of an entry whose method code is none of 0, 8, 12, 14, or whose
\* flags have bit 5 or bit 6, raises NotImplementedError and returns no reader;
\* the constructor raises NotImplementedError on a directory whose record has an
\* extract version above MAX_EXTRACT_VERSION (the record of ArchVer has 99).
C15_UnsupportedRaises ==
  /\ (OpenedByInfo /\ LocalHeaderOk(archive, CalledInfo)
        /\ (UnsupportedMethod(CalledInfo) \/ UnsupportedFlag(CalledInfo)))
       => (last.err = "NotImplementedError" /\ ~readers[last.rid].made)
  /\ (archive = FileBytes("ArchVer") /\ zstate # "new")
       => (LE16(archive, 6) > MAX_EXTRACT_VERSION /\ ctorErr = "NotImplementedError")

FormatErrors ==
  { "BadZipFile: Truncated file header", "BadZipFile: Bad magic number for file header",
    "BadZipFile: File name in directory and header differ" }

\* C16: open() of a descriptor (one without the flags open() rejects) raises
\* BadZipFile and returns no reader unless the bytes at its header_offset are a
\* whole local header with the signature and a name that decodes to its
\* orig_filename.
C16_BadHeaderRejected ==
  (OpenedByInfo /\ ~UnsupportedFlag(CalledInfo) /\ ~LocalHeaderOk(archive, CalledInfo))
    => (last.err \in FormatErrors /\ ~readers[last.rid].made)

\* the first place in F where the signature of the end record stands
RECURSIVE FirstEndRec(_, _)
FirstEndRec(F, i) ==
  IF i + 4 > Len(F) THEN NoneV
  ELSE IF Slice(F, i, i + 4) = stringEndArchive THEN i
  ELSE FirstEndRec(F, i + 1)

\* the ZIP64 record in front of the locator in front of the end record at loc
Zip64Rec(F, loc) ==
  Slice(F, loc - sizeEndCentDir64Locator - sizeEndCentDir64, loc - sizeEndCentDir64Locator)
Zip64Files == { FileBytes("Arch64"), FileBytes("Arch64Comment") }

\* C17: on Arch64 and Arch64Comment, where a ZIP64 locator and a ZIP64 record
\* stand in front of the end record, the constructor locates the directory by
\* the size the ZIP64 record holds (its 64-bit fields are below 2^32 here): the
\* directory starts that many bytes before the ZIP64 record.
C17_Zip64ValuesUsed ==
  (archive \in Zip64Files /\ zstate # "new") =>
    /\ Slice(Zip64Rec(archive, FirstEndRec(archive, 0)), 0, 4) = stringEndArchive64
    /\ ctorErr = "none"
    /\ start_dir = FirstEndRec(archive, 0) - sizeEndCentDir64Locator - sizeEndCentDir64
                     - LE32(Zip64Rec(archive, FirstEndRec(archive, 0)), 40)

\* s holds the signature of the end record
HasEndSignature(s) == \E i \in 0 .. Len(s) - 4 : Slice(s, i, i + 4) = stringEndArchive

\* what the constructor leaves after it found the end record at loc of an
\* archive with an empty directory and the comment c; the constructor was given
\* a file name or a file
Found(loc, c) == zstate = "open" /\ ctorErr = "none" /\ start_dir = loc /\ _comment = c

\* the end record of F stands at loc and is followed by the comment it declares,
\* of one byte at least
EndsWithComment(F, loc) ==
  /\ loc # NoneV
  /\ loc + sizeEndCentDir < Len(F)
  /\ LE16(F, loc + sizeEndCentDir - 2) = Len(F) - loc - sizeEndCentDir
StoredComment(F, loc) == SliceFrom(F, loc + sizeEndCentDir)

\* a ZIP64 locator stands in front of the end record at loc and names another
\* disk, counts more than one, or has less than a ZIP64 record before it
LocatorRejected(F, loc) ==
  /\ loc >= sizeEndCentDir64Locator
  /\ Slice(F, loc - sizeEndCentDir64Locator, loc - sizeEndCentDir64Locator + 4)
       = stringEndArchive64Locator
  /\ \/ LE32(F, loc - sizeEndCentDir64Locator + 4) # 0
     \/ LE32(F, loc - sizeEndCentDir64Locator + 16) > 1
     \/ loc < sizeEndCentDir64Locator + sizeEndCentDir64

DirSize(F, loc) == LE32(F, loc + 12)
RecordNeeds(F, sd) ==
  sizeCentralDir + LE16(F, sd + 28) + LE16(F, sd + 30) + LE16(F, sd + 32)
DirCutShort(F, loc) ==
  /\ loc > 0
  /\ loc + sizeEndCentDir <= Len(F)
  /\ DirSize(F, loc) \in 1 .. loc
  /\ IF DirSize(F, loc) < sizeCentralDir THEN TRUE
     ELSE /\ Slice(F, loc - DirSize(F, loc), loc - DirSize(F, loc) + 4) = stringCentralDir
          /\ RecordNeeds(F, loc - DirSize(F, loc)) > DirSize(F, loc)

\* C19: the constructor raises BadZipFile and accepts no entry when the first
\* record of the directory needs more bytes (46, or 46 and the lengths it
\* declares for name, extra field and comment) than the directory has.
C19_CutDirectoryRejected ==
  (zstate # "new" /\ DirCutShort(archive, FirstEndRec(archive, 0)))
    => (ctorErr = "BadZipFile" /\ filelist = << >>)

\* C20: the constructor raises BadZipFile on ArchExtra, whose directory record
\* has an extra field of 4 bytes holding a record that declares 8 bytes of payload.
C20_ExtraOverrunRejected ==
  (archive = FileBytes("ArchExtra") /\ zstate # "new") =>
    /\ LE16(archive, 30) = 4
    /\ LE16(archive, sizeCentralDir + 1 + 2) + 4 > LE16(archive, 30)
    /\ ctorErr = "BadZipFile"


(***************************************************************************)
(* Files shorter than an end record.                                       *)
(***************************************************************************)
ShortFile == Len(archive) < sizeEndCentDir

EndsWithDirectory(F) ==
  /\ Len(F) >= sizeEndCentDir + sizeCentralDir
  /\ Slice(F, Len(F) - sizeEndCentDir, Len(F) - sizeEndCentDir + 4) = stringEndArchive
  /\ Slice(F, Len(F) - 2, Len(F)) = << 0, 0 >>
  /\ DirSize(F, Len(F) - sizeEndCentDir) >= sizeCentralDir
  /\ Len(F) - sizeEndCentDir - DirSize(F, Len(F) - sizeEndCentDir) >= 0
  /\ Slice(F, Len(F) - sizeEndCentDir - DirSize(F, Len(F) - sizeEndCentDir),
           Len(F) - sizeEndCentDir - DirSize(F, Len(F) - sizeEndCentDir) + 4)
       = stringCentralDir

\* the header offset of the first record of that directory, corrected by concat
FirstHeaderOffset(F) ==
  LE32(F, Len(F) - sizeEndCentDir - DirSize(F, Len(F) - sizeEndCentDir) + 42)
    + (Len(F) - sizeEndCentDir - DirSize(F, Len(F) - sizeEndCentDir)
         - LE32(F, Len(F) - sizeEndCentDir + 16))

RecordOutside(F) ==
  EndsWithDirectory(F) /\ (FirstHeaderOffset(F) < 0 \/ FirstHeaderOffset(F) >= Len(F))

C23_NamelistInDirectoryOrder ==
  (archive = FileBytes("ArchDir") /\ zstate # "new") =>
    /\ ctorErr = "none"
    /\ namelist(filelist) = << NameA, NameB >>

\* C24: open(name) for a name that no entry has raises KeyError and returns no
\* reader; for ArchDup, whose directory holds two records named "a", the handle
\* is made and getinfo("a") is the descriptor of the record met last, the member
\* at offset 0.
C24_GetinfoLastOrKeyError ==
  /\ (last.op = "open" /\ CalledInfo = NoInfo /\ zstate = "open"
        /\ \A i \in 1 .. Len(filelist) : filelist[i].filename # NameA)
      => last.err = "KeyError" /\ ~readers[last.rid].made
  /\ (archive = FileBytes("ArchDup") /\ zstate # "new") =>
        /\ ctorErr = "none"
        /\ getinfo(filelist, NameA, Len(filelist)) = 2
        /\ filelist[2].header_offset = 0


\* the Unicode path record in the directory record of ArchUni: version 1 and the
\* CRC-32 of the name of the record
UniRecordMatches ==
  /\ Slice(FileBytes("ArchUni"), 79, 81) = << 117, 112 >>
  /\ FileBytes("ArchUni")[84] = 1
  /\ Slice(FileBytes("ArchUni"), 84, 88) = crc32(Slice(FileBytes("ArchUni"), 78, 79), Crc0)

\* C25: a Unicode path record (0x7075) of version 1 whose CRC-32 is the CRC-32 of
\* the name bytes of the directory record replaces the filename of the
\* descriptor and leaves its original name: for ArchUni, whose record is named
\* "a" and carries such a record with the name "b", the handle is made and its
\* one descriptor has the filename "b" and the original name "a".
C25_UnicodePathReplaces ==
  (archive = FileBytes("ArchUni") /\ zstate # "new") =>
    /\ UniRecordMatches
    /\ ctorErr = "none"
    /\ Len(filelist) = 1
    /\ filelist[1].filename = NameB
    /\ filelist[1].orig_filename = NameA


(***************************************************************************)
(* extract.                                                                *)
(***************************************************************************)
\* the normalised path t is the normalised path of the directory dest followed by
\* components that are names: none is "..", "." or empty
Inside(t, dest) ==
  /\ t.slashes = normpath(dest).slashes
  /\ Len(t.comps) >= Len(normpath(dest).comps)
  /\ SubSeq(t.comps, 1, Len(normpath(dest).comps)) = normpath(dest).comps
  /\ \A i \in Len(normpath(dest).comps) + 1 .. Len(t.comps) :
       t.comps[i] \notin { << >>, curdir, pardir }

C27_TestzipFirstBadName ==
  /\ (archive = FileBytes("ArchDup") /\ zstate # "new") =>
        /\ ctorErr = "none"
        /\ Len(filelist) = 2
  /\ last.op = "testzip" =>
        /\ last.err = "none"
        /\ last.n = 0
        /\ fileRefCnt = 1
        /\ ~physClosed

\* what read() returns on the reader r: the bytes and the exception
NextRead(r) ==
  [data |-> ZipExtFile_read(r, fpos, 0 - 1).data, err |-> ZipExtFile_read(r, fpos, 0 - 1).err]

\* C28: peek(n) leaves the position of the reader where it was, whatever the
\* state of the reader: tell() is the same after it as before it and the next
\* read() returns what it would have returned without the peek.  It returns at
\* most 512 bytes, and they are the bytes of the entry at that position (for a
\* stored entry whose descriptor is honest: the slice of a fresh read() that
\* starts at tell()).
C28_PeekLeavesPosition ==
  last.op = "peek" =>
    /\ ZipExtFile_tell(readers[last.rid]) = ZipExtFile_tell(last.pre)
    /\ NextRead(readers[last.rid]) = NextRead(last.pre)
    /\ Len(last.data) <= PeekMax
    /\ (/\ last.err = "none"
        /\ last.pre.compress_type = ZIP_STORED
        /\ last.pre.orig_compress_size = last.pre.orig_file_size
        /\ FreshRead(last.pre).err = "none")
       => last.data = Slice(FreshRead(last.pre).data, ZipExtFile_tell(last.pre),
                            ZipExtFile_tell(last.pre) + Len(last.data))

\* the plaintext of the encrypted stored entry d under the password p: the
\* bytes after the 12-byte encryption header, decrypted with the keys the
\* header leaves
PlainData(d, p) ==
  decrypt(decrypt(ZipDecrypter(p), Slice(File, DataStart(d), DataStart(d) + 12)).k,
          Slice(File, DataStart(d) + 12, DataStart(d) + d.compress_size)).out

\* C29: a reader of an encrypted entry that open() made with the password of
\* the entry reads the plaintext of the entry, the blocks after the 12-byte
\* encryption header having gone through the decrypter: read() as the first
\* call on a stored entry whose size and CRC are those of its plaintext
\* returns the plaintext and raises nothing.
C29_EncryptedEntryReads ==
  \A rid \in Slots :
    (/\ last.op = "read" /\ last.rid = rid /\ last.n < 0
     /\ readers[rid].made
     /\ Len(readers[rid].g_trace) = 1
     /\ last.pre.has_decrypter
     /\ last.pre.compress_type = ZIP_STORED
     /\ last.pre.orig_file_size = Len(PlainData(last.pre.g_zinfo, last.pre.g_pwd))
     /\ last.pre.orig_crc = crc32(PlainData(last.pre.g_zinfo, last.pre.g_pwd), Crc0))
    => /\ last.err = "none"
       /\ last.data = PlainData(last.pre.g_zinfo, last.pre.g_pwd)

\* the end of the data region of the entry the reader r reads
DataEnd(r) == r.orig_compress_start + r.orig_compress_size

\* C30: in every state of a reader, after whatever reads, peeks and seeks, the
\* compressed bytes it may still ask for (compress_left) are the bytes of the
\* entry between the offset it tracks in the file and the end of the data of
\* the entry, and the offset it tracks is not beyond that end.
C30_BudgetIsRestOfEntry ==
  \A rid \in Slots :
    (readers[rid].made /\ readers[rid].sf_open) =>
      /\ readers[rid].compress_left = DataEnd(readers[rid]) - readers[rid].sf_pos
      /\ readers[rid].sf_pos <= DataEnd(readers[rid])

\* the position a seek of the reader r with the arguments (offset, whence)
\* aims at, and the distance from tell() to it
SeekAim == SeekClamped(last.pre, last.n, last.whence)

\* the last call was a seek that neither moves inside the buffer nor takes the
\* fast path of stored unencrypted entries: a backward seek, or a forward seek
\* that has to read the entry to get there
SeekDecodes ==
  /\ last.op = "seek"
  /\ ~last.pre.closed
  /\ last.pre.seekable
  /\ ~(/\ SeekAim - ZipExtFile_tell(last.pre) + last.pre.offset >= 0
       /\ SeekAim - ZipExtFile_tell(last.pre) + last.pre.offset < Len(last.pre.readbuffer))
  /\ \/ SeekAim < ZipExtFile_tell(last.pre)
     \/ /\ SeekAim > ZipExtFile_tell(last.pre)
        /\ ~(last.pre.compress_type = ZIP_STORED /\ ~last.pre.has_decrypter)

\* a reader of the same entry that open() has just made, after read(p)
FreshReadTo(r, p) == ZipExtFile_read(OpenTry(r.g_zinfo, r.g_pwd, 0).r, fpos, p)

\* C31: a backward seek, and a forward seek that has to decode, leave the
\* reader as a reader that open() has just made is after read(p), p the target
\* of the seek: the seek raises what that read raises, and when it returns,
\* tell() and what the next read() returns are the same and the CRC is checked
\* against the CRC of the descriptor.
C31_SeekEqualsFreshRead ==
  SeekDecodes =>
    /\ last.err = FreshReadTo(last.pre, SeekAim).err
    /\ last.err = "none" =>
         /\ ZipExtFile_tell(readers[last.rid])
              = ZipExtFile_tell(FreshReadTo(last.pre, SeekAim).r)
         /\ NextRead(readers[last.rid]) = NextRead(FreshReadTo(last.pre, SeekAim).r)
         /\ readers[last.rid].expected_crc = last.pre.orig_crc

\* the bytes of the stored entry the reader r reads: the bytes of the file at
\* the start of its data, as many as its size
EntryContent(r) ==
  Slice(File, r.orig_compress_start, r.orig_compress_start + r.orig_file_size)

\* the reader r reads a stored unencrypted entry whose descriptor says what
\* the file holds: the two sizes agree, the data lie in the file and the CRC
\* is the CRC of the data
HonestStored(r) ==
  /\ r.compress_type = ZIP_STORED
  /\ ~r.has_decrypter
  /\ r.orig_compress_size = r.orig_file_size
  /\ r.orig_compress_start + r.orig_file_size <= Len(File)
  /\ r.orig_crc = crc32(EntryContent(r), Crc0)

\* C32: on a seekable reader of a stored unencrypted entry, after whatever
\* reads, read1s, peeks and seeks, read(n) with n >= 0 raises nothing and
\* returns the bytes of the entry from p to min(p + n, file_size), p being
\* tell() before the call, and tell() after it is p plus the number of bytes
\* returned.
C32_ReadReturnsSlice ==
  (/\ last.op = "read"
   /\ last.n >= 0
   /\ ~last.pre.closed
   /\ last.pre.seekable
   /\ HonestStored(last.pre))
  => /\ last.err = "none"
     /\ last.data = Slice(EntryContent(last.pre), ZipExtFile_tell(last.pre),
                          ZipExtFile_tell(last.pre) + last.n)
     /\ ZipExtFile_tell(readers[last.rid]) = ZipExtFile_tell(last.pre) + Len(last.data)

\* the shared handles that have a file, and no thread inside open() or close()
LiveHandles == Cardinality({ t \in Threads : threads[t].live })
Quiet == \A t \in Threads : threads[t].pc = "idle"

\* C33: with threads that call open() and close their readers concurrently,
\* the reference count is the number of live handles whenever no call is under
\* way (the handle itself counts while it is open), so that no increment and
\* no decrement is lost; the file is not closed while the handle or a reader
\* is open, and it is closed once the handle and every reader have been
\* closed (when the handle opened it).
C33_CountIsLiveHandles ==
  Usable =>
    /\ Quiet => fileRefCnt = (IF fp THEN 1 ELSE 0) + LiveHandles
    /\ physClosed => (~fp /\ LiveHandles = 0)
    /\ (Quiet /\ ~fp /\ LiveHandles = 0 /\ filePassed = 0) => physClosed

\* a step that is an open() on an open handle that raises after the descriptor
\* has been found (a name that is not in the archive raises KeyError before)
OpenFailsStep ==
  /\ last'.op = "open"
  /\ ops' = ops + 1
  /\ fp
  /\ last'.err \notin {"none", "KeyError"}

\* C34: an open() that raises after it has its descriptor closes the shared
\* handle it made: the reference count is what it was before the call, the
\* physical file is as open as it was, and the call leaves no reader.
C34_FailedOpenReleases ==
  [][OpenFailsStep =>
       /\ fileRefCnt' = fileRefCnt
       /\ physClosed' = physClosed
       /\ ~readers'[last'.rid].made
       /\ ~readers'[last'.rid].sf_open]_vars

\* open() has raised on a handle that has a reader open
C34_FailedOpenSeen ==
  /\ last.op = "open"
  /\ fp
  /\ last.err \notin {"none", "KeyError", "ValueError"}
  /\ fileRefCnt = 2
  /\ readers[1].sf_open
  /\ ~physClosed

\* a step that is a call on the read path: open(), or read, read1, peek, seek
\* or close of a reader
ReadPathStep ==
  /\ ops' = ops + 1
  /\ last'.op \in {"open", "read", "read1", "peek", "seek", "close"}

C36_EndOffsetsAssigned ==
  (archive = FileBytes("ArchDir") /\ zstate # "new") =>
    /\ ctorErr = "none"
    /\ Len(filelist) = 2
    /\ filelist[1].header_offset = 0
    /\ filelist[2].header_offset = 39
    /\ filelist[2].end_offset = start_dir
    /\ filelist[1].end_offset = filelist[2].header_offset

\* the bytes of the entry passed to the unit so far, and the length of the
\* properties its header announces
LzmaPassed == SliceTo(lzmaUnit.entry, Len(lzmaUnit.entry) - Len(lzmaUnit.rest))
LzmaPsize == LE16(lzmaUnit.entry, 2)

\* C37: however the bytes of an LZMA entry are split over the calls of
\* decompress, the unit returns nothing and makes no raw decoder while the
\* header and the properties are not all buffered; once bytes beyond them have
\* been passed it has made the raw decoder exactly once, with the bytes
\* [4, 4 + psize) as properties, and has given it the bytes passed after
\* 4 + psize, each once and in order.
C37_LzmaHeaderThenData ==
  lzmaUnit.made =>
    /\ (Len(LzmaPassed) < 4 \/ Len(LzmaPassed) < 4 + LzmaPsize) =>
         /\ lzmaUnit.out = << >>
         /\ lzmaUnit.inits = 0
         /\ lzmaUnit.err = "none"
    /\ (Len(LzmaPassed) > 4 /\ Len(LzmaPassed) > 4 + LzmaPsize) =>
         /\ lzmaUnit.inits = 1
         /\ lzmaUnit.props = Slice(lzmaUnit.entry, 4, 4 + LzmaPsize)
         /\ lzmaUnit.err \in {"none", "EOFError"}
         /\ lzmaUnit.err = "none" => lzmaUnit.fed = SliceFrom(LzmaPassed, 4 + LzmaPsize)


(***************************************************************************)
(* The loops of read and seek, pass by pass.  One reader is opened on the  *)
(* handle; a read to the end of the entry or a seek is then run one loop   *)
(* iteration per step: ReadPass is one iteration of `while not self._eof`  *)
(* (or of `while n > 0 and not self._eof` for the reads the seek issues),  *)
(* SeekPass one call of self.read(read_len) in `while read_offset > 0`.    *)
(* The descriptors add entries that declare more bytes than the file has;  *)
(* the stored one is on the last member of ArchUtf, 25 bytes from the end. *)
(***************************************************************************)
LoopDescriptors ==
  (Descriptors \ { [InfoB EXCEPT !.flag_bits = 0, !.compress_size = 40, !.file_size = 40] })
  \cup { [InfoE EXCEPT !.compress_size = 30, !.file_size = 30],
         [InfoA EXCEPT !.compress_size = 60],
         [InfoA EXCEPT !.compress_size = 0],
         [InfoA EXCEPT !.compress_type = ZIP_DEFLATED, !.compress_size = 60,
                       !.crc_value = crc32(PlainA, Crc0)],
         [InfoA EXCEPT !.compress_type = ZIP_DEFLATED, !.compress_size = 3,
                       !.crc_value = crc32(PlainA, Crc0)],
         [InfoA EXCEPT !.compress_type = ZIP_BZIP2, !.compress_size = 3,
                       !.crc_value = crc32(PlainA, Crc0)] }

LoopCalls ==
  { Call(d, << >>) : d \in LoopDescriptors }
  \cup { Call(d, PwdP) : d \in { x \in LoopDescriptors : BitSet(x.flag_bits, _MASK_ENCRYPTED) } }

LoopSeekCalls == SeekCalls \cup { << 0, 0 >>, << MaxLoopSeek, 0 >> }

LoopFrame ==
  UNCHANGED << lzmaUnit, threads, archive, _comment, filePassed, zstate, ctorErr, fp,
               filelist, start_dir, zpwd, solo, last, ops >>

LoopRaised(x, how) ==
  /\ readers' = [readers EXCEPT ![1] = x.r]
  /\ fpos' = x.fpos
  /\ loop' = [loop EXCEPT !.kind = "idle", !.reading = FALSE, !.err = x.err, !.how = how]

\* ZipFile.open for the reader the loops run on
LoopOpen(call) ==
  /\ zstate = "open"
  /\ ~readers[1].made
  /\ \E o \in { ZipFile_open(call, fpos, fileRefCnt, physClosed) } :
        /\ fpos' = o.fpos
        /\ fileRefCnt' = o.cnt
        /\ physClosed' = o.pc
        /\ readers' = [readers EXCEPT ![1] = o.r]
  /\ UNCHANGED << beat, loop, lzmaUnit, threads, archive, _comment, filePassed, zstate, ctorErr, fp,
                  filelist, start_dir, zpwd, solo, last, ops >>

\* read(n) with n negative or None, up to the loop
ReadAllBegin ==
  /\ loop.kind = "idle"
  /\ readers[1].made
  /\ loop.calls < MaxLoopCalls
  /\ IF readers[1].closed
     THEN /\ loop' = [NoLoop EXCEPT !.calls = loop.calls + 1, !.err = "ValueError",
                                    !.how = "begin"]
          /\ UNCHANGED readers
     ELSE /\ loop' = [NoLoop EXCEPT !.calls = loop.calls + 1, !.kind = "read",
                                    !.reading = TRUE, !.n = 0 - 1, !.how = "begin"]
          /\ readers' = [readers EXCEPT ![1] = Unbuffered(readers[1])]
  /\ UNCHANGED << fpos, fileRefCnt, physClosed >>
  /\ UNCHANGED beat
  /\ LoopFrame

\* x is the outcome of self._read1(n) in the body of the loop of read
ReadPassed(x) ==
  IF x.err # "none" THEN LoopRaised(x, "pass")
  ELSE /\ fpos' = x.fpos
       /\ IF loop.n >= 0 /\ loop.n < Len(x.data)
          THEN /\ readers' = [readers EXCEPT ![1] = [x.r EXCEPT !.readbuffer = x.data,
                                                                  !.offset = loop.n]]
               /\ loop' = [loop EXCEPT !.n = 0, !.how = "pass",
                                       !.passes = Min(@ + 1, MaxPasses)]
          ELSE /\ readers' = [readers EXCEPT ![1] = x.r]
               /\ loop' = [loop EXCEPT !.n = IF @ < 0 THEN @ ELSE @ - Len(x.data),
                                       !.how = "pass",
                                       !.passes = Min(@ + 1, MaxPasses)]

\* one iteration of the loop of read
ReadPass ==
  /\ loop.reading
  /\ ~readers[1].eof
  /\ loop.n # 0
  /\ \E x \in { ZipExtFile__read1(readers[1], fpos, IF loop.n < 0 THEN MAX_N ELSE loop.n) } :
        ReadPassed(x)
  /\ UNCHANGED << fileRefCnt, physClosed >>
  /\ beat' = 1 - beat
  /\ LoopFrame

\* the loop of read is left and read returns; in seek, read_offset -= read_len follows
ReadReturn ==
  /\ loop.reading
  /\ readers[1].eof \/ loop.n = 0
  /\ loop' = IF loop.kind = "read"
             THEN [loop EXCEPT !.kind = "idle", !.reading = FALSE, !.how = "return"]
             ELSE [loop EXCEPT !.reading = FALSE, !.how = "turn",
                               !.read_offset = @ - loop.read_len,
                               !.turns = Min(@ + 1, MaxPasses)]
  /\ UNCHANGED << readers, fpos, fileRefCnt, physClosed >>
  /\ beat' = 1 - beat
  /\ LoopFrame

\* x is the reader and the cursor the branches of seek leave, off the distance left
SeekBegun(x, off) ==
  IF x.err # "none"
  THEN /\ readers' = [readers EXCEPT ![1] = x.r]
       /\ fpos' = x.fpos
       /\ loop' = [NoLoop EXCEPT !.calls = loop.calls + 1, !.err = x.err, !.how = "begin"]
  ELSE /\ readers' = [readers EXCEPT ![1] = x.r]
       /\ fpos' = x.fpos
       /\ loop' = [NoLoop EXCEPT !.calls = loop.calls + 1, !.kind = "seek",
                                 !.read_offset = off, !.how = "begin"]

\* seek(offset, whence), up to the replay loop
SeekBranches(r, pos, new_pos, read_offset) ==
  IF read_offset + r.offset >= 0 /\ read_offset + r.offset < Len(r.readbuffer)
  THEN SeekBegun(Ret([r EXCEPT !.offset = read_offset + r.offset], pos, << >>, "none"), 0)
  ELSE IF r.compress_type = ZIP_STORED /\ ~r.has_decrypter /\ read_offset > 0
  THEN SeekBegun(SeekFast(r, pos, read_offset), 0)
  ELSE IF read_offset < 0 THEN SeekBegun(SeekReset(r, pos, 0), new_pos)
  ELSE SeekBegun(Ret(r, pos, << >>, "none"), read_offset)

SeekBegin(offset, whence) ==
  /\ loop.kind = "idle"
  /\ readers[1].made
  /\ loop.calls < MaxLoopCalls
  /\ IF readers[1].closed \/ ~readers[1].seekable \/ whence \notin {0, 1, 2}
     THEN /\ loop' = [NoLoop EXCEPT !.calls = loop.calls + 1, !.how = "begin",
                                    !.err = IF ~readers[1].closed /\ ~readers[1].seekable
                                            THEN "UnsupportedOperation" ELSE "ValueError"]
          /\ UNCHANGED << readers, fpos >>
     ELSE SeekBranches(readers[1], fpos, SeekClamped(readers[1], offset, whence),
                       SeekClamped(readers[1], offset, whence) - ZipExtFile_tell(readers[1]))
  /\ UNCHANGED << fileRefCnt, physClosed >>
  /\ UNCHANGED beat
  /\ LoopFrame

\* one iteration of the replay loop of seek, up to the loop of the read it calls
SeekPass ==
  /\ loop.kind = "seek"
  /\ ~loop.reading
  /\ loop.read_offset > 0
  /\ \E read_len \in { Min(MAX_SEEK_READ, loop.read_offset) } :
     \E end \in { read_len + readers[1].offset } :
        IF readers[1].closed
        THEN LoopRaised(Ret(readers[1], fpos, << >>, "ValueError"), "turn")
        ELSE IF end < Len(readers[1].readbuffer)
        THEN /\ readers' = [readers EXCEPT ![1].offset = end]
             /\ loop' = [loop EXCEPT !.read_offset = @ - read_len, !.how = "turn",
                                     !.turns = Min(@ + 1, MaxPasses)]
             /\ UNCHANGED fpos
        ELSE /\ readers' = [readers EXCEPT ![1] = Unbuffered(readers[1])]
             /\ loop' = [loop EXCEPT !.reading = TRUE, !.read_len = read_len,
                                     !.n = end - Len(readers[1].readbuffer),
                                     !.how = "read"]
             /\ UNCHANGED fpos
  /\ UNCHANGED << fileRefCnt, physClosed >>
  /\ beat' = 1 - beat
  /\ LoopFrame

\* the replay loop is left and seek returns self.tell()
SeekReturn ==
  /\ loop.kind = "seek"
  /\ ~loop.reading
  /\ loop.read_offset <= 0
  /\ loop' = [loop EXCEPT !.kind = "idle", !.how = "return"]
  /\ UNCHANGED << readers, fpos, fileRefCnt, physClosed >>
  /\ beat' = 1 - beat
  /\ LoopFrame

InitLoop == Start({ FileBytes("ArchEmpty"), FileBytes("ArchUtf") }) /\ filePassed = 0

NextLoop ==
  \/ Construct
  \/ \E call \in LoopCalls : LoopOpen(call)
  \/ ReadAllBegin
  \/ ReadPass
  \/ ReadReturn
  \/ \E c \in LoopSeekCalls : SeekBegin(c[1], c[2])
  \/ SeekPass
  \/ SeekReturn

\* the thread that called read or seek keeps running: no step of a loop waits
\* for anything but the processor
Running == loop.kind # "idle"
Advance == Running /\ beat' = 1 - beat

SpecLoop == InitLoop /\ [][NextLoop]_vars /\ WF_beat(Advance)

\* a call in progress always has its next step: one of ReadPass, ReadReturn,
\* SeekPass and SeekReturn can be taken
LoopStepReady ==
  Running =>
     \/ loop.reading
     \/ loop.kind = "seek"

\* C38: every read to the end of the entry and every seek terminates: a pass of
\* the read loop that does not raise takes at least one byte off the compressed
\* budget, or shortens the inflater's unconsumed tail, or sets the end-of-entry
\* flag; a pass of the replay loop of seek lowers the distance left; and a call
\* that is running comes to return or raise.
PassProgress ==
  loop'.how = "pass" =>
     \/ loop'.err # "none"
     \/ readers'[1].compress_left < readers[1].compress_left
     \/ Len(readers'[1].decomp.tail) < Len(readers[1].decomp.tail)
     \/ readers'[1].eof

TurnProgress ==
  loop'.how = "turn" => loop'.err # "none" \/ loop'.read_offset < loop.read_offset

C38_LoopsTerminate ==
  /\ [][PassProgress /\ TurnProgress]_vars
  /\ Running ~> ~Running

\* a seek has returned after two passes of its replay loop, each through the read loop
C38_ReplayDone ==
  /\ loop.kind = "idle"
  /\ loop.how = "return"
  /\ loop.turns >= 2
  /\ loop.passes >= 2

====
